---- MODULE Spec2Model ----
(***************************************************************************)
(* Model of the travel planner's slot-filling dialogue controller:         *)
(* SimpleTravelPlannerAgent (src/app.py and src/enhanced_planner.py) and   *)
(* EnhancedTravelPlanner (src/enhanced_planner.py), with the Plan Store    *)
(* (stored_plans) and the provider (LLM) as a nondeterministic input.      *)
(*                                                                         *)
(* Python values are modelled as follows.  A str whose characters the code *)
(* inspects (user text, duration text, date text) is a sequence of         *)
(* one-character strings.  An optional value is a sequence of length 0     *)
(* (None) or 1 (the value).  A dict is a function whose DOMAIN is the set  *)
(* of keys present.  A plan dict is an object on the heap `plans`, and     *)
(* references to it are indices, so aliasing is visible.                   *)
(***************************************************************************)
EXTENDS Integers, Sequences, FiniteSets, TLC

VARIABLES variant, sessions, plans, stored_plans, synthesized, clock, trips,
          conversations, users, current_user, threads, turns, last

vars == <<variant, sessions, plans, stored_plans, synthesized, clock, trips,
          conversations, users, current_user, threads, turns, last>>

\* ---------------------------------------------------------------- bounds
MaxTurns == 2
MaxClock == 1
MaxRequests == 3
\* the trip ids a request names: those of the three rows of the table, and one more
MaxTripId == 4

\* ---------------------------------------------------------------- optional values
None == <<>>
Some(v) == <<v>>
IsNone(o) == o = <<>>
Val(o) == o[1]

\* ---------------------------------------------------------------- text

DigitVal(c) ==
  CASE c = "0" -> 0 [] c = "1" -> 1 [] c = "2" -> 2 [] c = "3" -> 3
    [] c = "4" -> 4 [] c = "5" -> 5 [] c = "6" -> 6 [] c = "7" -> 7
    [] c = "8" -> 8 [] c = "9" -> 9

UpperToLower ==
  [c \in {"A", "B", "C", "D", "E", "F", "G", "H", "I", "J", "K", "L", "M",
          "N", "O", "P", "Q", "R", "S", "T", "U", "V", "W", "X", "Y", "Z"} |->
     CASE c = "A" -> "a" [] c = "B" -> "b" [] c = "C" -> "c" [] c = "D" -> "d"
       [] c = "E" -> "e" [] c = "F" -> "f" [] c = "G" -> "g" [] c = "H" -> "h"
       [] c = "I" -> "i" [] c = "J" -> "j" [] c = "K" -> "k" [] c = "L" -> "l"
       [] c = "M" -> "m" [] c = "N" -> "n" [] c = "O" -> "o" [] c = "P" -> "p"
       [] c = "Q" -> "q" [] c = "R" -> "r" [] c = "S" -> "s" [] c = "T" -> "t"
       [] c = "U" -> "u" [] c = "V" -> "v" [] c = "W" -> "w" [] c = "X" -> "x"
       [] c = "Y" -> "y" [] c = "Z" -> "z"]

\* the character classes of the regular expressions: \d, \s and \w
Chars ==
  [digit |-> {"0", "1", "2", "3", "4", "5", "6", "7", "8", "9"},
   space |-> {" ", "\t", "\n"},
   word |-> {"a", "b", "c", "d", "e", "f", "g", "h", "i", "j", "k", "l", "m",
             "n", "o", "p", "q", "r", "s", "t", "u", "v", "w", "x", "y", "z",
             "0", "1", "2", "3", "4", "5", "6", "7", "8", "9", "_"}
            \cup DOMAIN UpperToLower]

\* str.lower()
Lower(s) == [i \in 1..Len(s) |-> IF s[i] \in DOMAIN UpperToLower THEN UpperToLower[s[i]] ELSE s[i]]

\* `sub in s`
Contains(s, sub) ==
  \E i \in 0..(Len(s) - Len(sub)) : SubSeq(s, i + 1, i + Len(sub)) = sub

\* s[i:].startswith(sub), 1-based
StartsAt(s, i, sub) ==
  /\ i >= 1
  /\ i + Len(sub) - 1 <= Len(s)
  /\ SubSeq(s, i, i + Len(sub) - 1) = sub

IsSpace(c) == c \in {" ", "\t", "\n"}

\* the position after the longest run of characters of set C starting at i
RECURSIVE RunEnd(_, _, _)
RunEnd(s, i, C) == IF i >= 1 /\ i <= Len(s) /\ s[i] \in C THEN RunEnd(s, i + 1, C) ELSE i


\* int() of a digit string
RECURSIVE DigitsToInt(_)
DigitsToInt(ds) ==
  IF ds = <<>> THEN 0
  ELSE 10 * DigitsToInt(SubSeq(ds, 1, Len(ds) - 1)) + DigitVal(ds[Len(ds)])

\* str.strip()
RECURSIVE Strip(_)
Strip(s) ==
  IF s = <<>> THEN s
  ELSE IF IsSpace(s[1]) THEN Strip(Tail(s))
  ELSE IF IsSpace(s[Len(s)]) THEN Strip(SubSeq(s, 1, Len(s) - 1))
  ELSE s

MinOf(S) == CHOOSE k \in S : \A m \in S : k <= m

\* the maximal digit run that starts at i
DigitsAt(s, i) == SubSeq(s, i, RunEnd(s, i, Chars.digit) - 1)

\* re.search(r'(\d+)', s): the first maximal digit run, None when there is none
FirstDigits(s) ==
  LET First(starts) == IF starts = {} THEN None ELSE Some(DigitsAt(s, MinOf(starts)))
  IN First({i \in 1..Len(s) : s[i] \in Chars.digit})

\* ---------------------------------------------------------------- calendar
\* datetime.now(): the date part and the year used by parse_travel_dates
Today == <<2026, 11, 3>>
CurrentYear == Today[1]

IsLeap(y) == (y % 4 = 0 /\ y % 100 # 0) \/ y % 400 = 0

DaysInMonth(y, m) ==
  IF m = 2 THEN (IF IsLeap(y) THEN 29 ELSE 28)
  ELSE IF m \in {4, 6, 9, 11} THEN 30 ELSE 31

ValidDate(y, m, d) == y >= 1 /\ m \in 1..12 /\ d >= 1 /\ d <= DaysInMonth(y, m)

RECURSIVE DaysBeforeMonth(_, _)
DaysBeforeMonth(y, m) == IF m <= 1 THEN 0 ELSE DaysBeforeMonth(y, m - 1) + DaysInMonth(y, m - 1)

\* date.toordinal()
Ordinal(dt) ==
  LET y == dt[1] - 1
  IN 365 * y + (y \div 4) - (y \div 100) + (y \div 400) + DaysBeforeMonth(dt[1], dt[2]) + dt[3]

NextDay(dt) ==
  IF dt[3] < DaysInMonth(dt[1], dt[2]) THEN <<dt[1], dt[2], dt[3] + 1>>
  ELSE IF dt[2] < 12 THEN <<dt[1], dt[2] + 1, 1>>
  ELSE <<dt[1] + 1, 1, 1>>

PrevDay(dt) ==
  IF dt[3] > 1 THEN <<dt[1], dt[2], dt[3] - 1>>
  ELSE IF dt[2] > 1 THEN <<dt[1], dt[2] - 1, DaysInMonth(dt[1], dt[2] - 1)>>
  ELSE <<dt[1] - 1, 12, 31>>

\* date + timedelta(days=n)
RECURSIVE AddDays(_, _)
AddDays(dt, n) ==
  IF n = 0 THEN dt
  ELSE IF n > 0 THEN AddDays(NextDay(dt), n - 1)
  ELSE AddDays(PrevDay(dt), n + 1)

\* a date of the calendar; None stands for the ValueError of an impossible one
MakeDate(y, m, d) == IF ValidDate(y, m, d) THEN Some(<<y, m, d>>) ELSE None

\* datetime.replace(year=...)
ReplaceYear(dt, y) == MakeDate(y, dt[2], dt[3])

\* a midnight datetime is < datetime.now() exactly when its date is not after today
InPast(dt) == Ordinal(dt) <= Ordinal(Today)

\* `if start_date < datetime.now(): start_date = start_date.replace(year=year + 1)`
NextYearIfPast(dt) == IF InPast(dt) THEN ReplaceYear(dt, dt[1] + 1) ELSE Some(dt)

AllDigits(s) == \A i \in 1..Len(s) : s[i] \in Chars.digit

\* datetime.strptime(s, "%Y-%m-%d") for a 10-character s
ParseYMD(s) ==
  IF /\ Len(s) = 10
     /\ s[5] = "-" /\ s[8] = "-"
     /\ AllDigits(SubSeq(s, 1, 4)) /\ AllDigits(SubSeq(s, 6, 7)) /\ AllDigits(SubSeq(s, 9, 10))
  THEN MakeDate(DigitsToInt(SubSeq(s, 1, 4)), DigitsToInt(SubSeq(s, 6, 7)),
                DigitsToInt(SubSeq(s, 9, 10)))
  ELSE None

\* strptime(f"{year}-{md}", "%Y-%m-%d") where md is digits-digits of 1 or 2 digits each
ParseMD(year, md) ==
  LET At(dash) == MakeDate(year, DigitsToInt(SubSeq(md, 1, dash - 1)),
                           DigitsToInt(SubSeq(md, dash + 1, Len(md))))
  IN At(CHOOSE i \in 1..Len(md) : md[i] = "-")

\* the start positions of `sep` in s
Occurrences(s, sep) == {i \in 1..Len(s) : StartsAt(s, i, sep)}

\* s.split(sep) for a separator that cannot overlap itself
RECURSIVE Split(_, _)
Split(s, sep) ==
  LET CutAt(p) == <<SubSeq(s, 1, p - 1)>> \o Split(SubSeq(s, p + Len(sep), Len(s)), sep)
      Cut(occ) == IF occ = {} THEN <<s>> ELSE CutAt(MinOf(occ))
  IN Cut(Occurrences(s, sep))

TravelDates(start, end, days) == [start_date |-> start, end_date |-> end, duration_days |-> days]

\* start and end with duration_days = (end - start).days + 1
Span(start, end) == Some(TravelDates(start, end, Ordinal(end) - Ordinal(start) + 1))

\* the words and separators the code looks for in a text
Word ==
  [sp_to_sp |-> <<" ", "t", "o", " ">>,
   sp_for_sp |-> <<" ", "f", "o", "r", " ">>,
   from |-> <<"f", "r", "o", "m">>,
   to |-> <<"t", "o">>,
   until |-> <<"u", "n", "t", "i", "l">>,
   day |-> <<"d", "a", "y">>,
   week |-> <<"w", "e", "e", "k">>,
   peopl |-> <<"p", "e", "o", "p", "l">>,
   sp_people |-> <<" ", "p", "e", "o", "p", "l", "e">>,
   family |-> <<"f", "a", "m", "i", "l", "y">>,
   of_ |-> <<"o", "f">>,
   person |-> <<"p", "e", "r", "s", "o", "n">>,
   solo |-> <<"s", "o", "l", "o">>,
   trip |-> <<"t", "r", "i", "p">>,
   solo_trip |-> <<"s", "o", "l", "o", " ", "t", "r", "i", "p">>,
   couple |-> <<"c", "o", "u", "p", "l", "e">>,
   group |-> <<"g", "r", "o", "u", "p">>,
   from_sp |-> <<"f", "r", "o", "m", " ">>,
   sp_with_sp |-> <<" ", "w", "i", "t", "h", " ">>,
   sp_budget |-> <<" ", "b", "u", "d", "g", "e", "t">>,
   budget |-> <<"b", "u", "d", "g", "e", "t">>,
   sp_interested_in_sp |-> <<" ", "i", "n", "t", "e", "r", "e", "s", "t", "e", "d", " ", "i", "n", " ">>,
   comma_sp |-> <<",", " ">>]

\* the "add year if not provided" step: 5 characters get the current year, 10 are kept
\* (None stands for the early `return {}`)
WithYear(str) ==
  LET Of(t) == IF Len(t) = 5 THEN Some(<<"2", "0", "2", "6", "-">> \o t)
               ELSE IF Len(t) = 10 THEN Some(t)
               ELSE None
  IN Of(Strip(str))

\* the "single date" branch of app.py parse_travel_dates: "YYYY-MM-DD", then "MM-DD"
SingleDateApp(date_text) ==
  LET Once(st) == IF IsNone(st) THEN None ELSE Some(TravelDates(Val(st), Val(st), 1))
      Shift(got) == IF IsNone(got) THEN None ELSE Once(NextYearIfPast(Val(got)))
      Short == IF Len(date_text) = 5 /\ date_text[3] = "-"
                  /\ AllDigits(SubSeq(date_text, 1, 2)) /\ AllDigits(SubSeq(date_text, 4, 5))
               THEN ParseMD(CurrentYear, date_text) ELSE None
      Pick(full) == IF ~IsNone(full) THEN full ELSE Short
  IN Shift(Pick(IF Len(date_text) = 10 THEN ParseYMD(date_text) ELSE None))

\* the "X to Y" branch of app.py parse_travel_dates
RangeDatesApp(date_text) ==
  LET Moved(s2, e2) == IF IsNone(s2) \/ IsNone(e2) THEN None ELSE Span(Val(s2), Val(e2))
      Dates(sd, ed) ==
        IF IsNone(sd) \/ IsNone(ed) THEN None
        ELSE IF InPast(Val(sd))
        THEN Moved(ReplaceYear(Val(sd), Val(sd)[1] + 1), ReplaceYear(Val(ed), Val(ed)[1] + 1))
        ELSE Span(Val(sd), Val(ed))
      Texts(ss, es) ==
        IF IsNone(ss) \/ IsNone(es) THEN None ELSE Dates(ParseYMD(Val(ss)), ParseYMD(Val(es)))
      Parts(parts) ==
        IF Len(parts) # 2 THEN None ELSE Texts(WithYear(parts[1]), WithYear(parts[2]))
  IN Parts(Split(date_text, Word.sp_to_sp))

\* the "X for N days" branch of app.py parse_travel_dates
ForDatesApp(date_text) ==
  LET Stay(st, n) == Some(TravelDates(st, AddDays(st, n - 1), n))
      Count(st, dm) ==
        IF IsNone(st) THEN None
        ELSE IF IsNone(dm) THEN SingleDateApp(date_text)
        ELSE Stay(Val(st), DigitsToInt(Val(dm)))
      Start(sd, rest) ==
        IF IsNone(sd) THEN None ELSE Count(NextYearIfPast(Val(sd)), FirstDigits(Strip(rest)))
      From(ss, rest) == IF IsNone(ss) THEN None ELSE Start(ParseYMD(Val(ss)), rest)
      Parts(parts) == From(WithYear(parts[1]), parts[2])
  IN Parts(Split(date_text, Word.sp_for_sp))

\* app.py parse_travel_dates; None stands for the {} result
ParseTravelDatesApp(date_text) ==
  IF date_text = <<>> THEN None
  ELSE IF Contains(date_text, Word.sp_to_sp) THEN RangeDatesApp(date_text)
  ELSE IF Contains(date_text, Word.sp_for_sp) THEN ForDatesApp(date_text)
  ELSE SingleDateApp(date_text)

\* ---------------------------------------------------------------- regular expressions
IsDigitAt(s, k) == k >= 1 /\ k <= Len(s) /\ s[k] \in Chars.digit
IsDashAt(s, k) == k >= 1 /\ k <= Len(s) /\ s[k] = "-"

\* \d{1,2}-\d{1,2} anchored at j: the position after the match, 0 when it does not match
MDEnd(s, j) ==
  LET Second(k) == IF ~IsDigitAt(s, k) THEN 0
                   ELSE IF IsDigitAt(s, k + 1) THEN k + 2 ELSE k + 1
  IN IF IsDigitAt(s, j) /\ IsDigitAt(s, j + 1) /\ IsDashAt(s, j + 2) THEN Second(j + 3)
     ELSE IF IsDigitAt(s, j) /\ IsDashAt(s, j + 1) THEN Second(j + 2)
     ELSE 0


\* the rest of a date range once its first date ends at e1 and its separator word of
\* length w starts at q: \s*(\d{1,2}-\d{1,2}); <<group1, group2>> or <<>>
RangeTail(s, i, e1, q, w, spaces) ==
  LET Last(r, e2) == IF e2 > 0 THEN <<SubSeq(s, i, e1 - 1), SubSeq(s, r, e2 - 1)>> ELSE <<>>
      After(r) == IF spaces /\ r = q + w THEN <<>> ELSE Last(r, MDEnd(s, r))
  IN After(RunEnd(s, q + w, Chars.space))

\* the text \d{1,2}-\d{1,2} matches at j
DigitsAndDash(s, j) == SubSeq(s, j, MDEnd(s, j) - 1)

\* from\s+(\d{1,2}-\d{1,2})\s+to\s+(\d{1,2}-\d{1,2}) anchored at i: <<group1, group2>> or <<>>
FromToAt(s, i) ==
  LET Sep(p, e1, q) ==
        IF e1 > 0 /\ q > e1 /\ StartsAt(s, q, Word.to) THEN RangeTail(s, p, e1, q, 2, TRUE) ELSE <<>>
      First(p, e1) == Sep(p, e1, RunEnd(s, e1, Chars.space))
      Start(p) == IF p > i + 4 THEN First(p, MDEnd(s, p)) ELSE <<>>
  IN IF ~StartsAt(s, i, Word.from) THEN <<>> ELSE Start(RunEnd(s, i + 4, Chars.space))

\* (\d{1,2}-\d{1,2})\s*(?:to|until)\s*(\d{1,2}-\d{1,2}) anchored at i
RangeAt(s, i) ==
  LET Sep(e1, q) ==
        IF e1 = 0 THEN <<>>
        ELSE IF StartsAt(s, q, Word.to) THEN RangeTail(s, i, e1, q, 2, FALSE)
        ELSE IF StartsAt(s, q, Word.until) THEN RangeTail(s, i, e1, q, 5, FALSE)
        ELSE <<>>
      First(e1) == Sep(e1, RunEnd(s, e1, Chars.space))
  IN First(MDEnd(s, i))

\* the "from X to Y" branch of enhanced_planner.py parse_travel_dates
FromToDatesEnh(g) ==
  LET Dated(sd, ed) == IF IsNone(ed) THEN None ELSE Span(sd, Val(ed))
      Ends(sd, e0) ==
        IF IsNone(sd) \/ IsNone(e0) THEN None
        ELSE Dated(Val(sd), IF Ordinal(Val(e0)) < Ordinal(Val(sd))
                            THEN ParseMD(CurrentYear + 1, g[2]) ELSE e0)
  IN Ends(ParseMD(CurrentYear, g[1]), ParseMD(CurrentYear, g[2]))

\* the single-date branch of enhanced_planner.py parse_travel_dates
SingleDateEnh(md) ==
  LET Once(st) == IF IsNone(st) THEN None ELSE Some(TravelDates(Val(st), Val(st), 1))
      Shift(d0) ==
        IF IsNone(d0) THEN None
        ELSE Once(IF InPast(Val(d0)) THEN ParseMD(CurrentYear + 1, md) ELSE d0)
  IN Shift(ParseMD(CurrentYear, md))

\* enhanced_planner.py parse_travel_dates; None stands for the None result
ParseTravelDatesEnh(date_text) ==
  LET Single(m2) ==
        IF m2 = {} THEN None ELSE SingleDateEnh(DigitsAndDash(date_text, MinOf(m2)))
      Range(m1) ==
        IF m1 # {} THEN FromToDatesEnh(FromToAt(date_text, MinOf(m1)))
        ELSE Single({j \in 1..Len(date_text) : MDEnd(date_text, j) > 0})
  IN Range({i \in 1..Len(date_text) : FromToAt(date_text, i) # <<>>})

\* (\d+)\s*word searched in s: the position and the digits of the leftmost match, None
\* when there is none
NumThenWord(s, word) ==
  LET Found(m) == IF m = {} THEN None ELSE Some(<<MinOf(m), DigitsAt(s, MinOf(m))>>)
  IN Found({i \in 1..Len(s) :
              /\ s[i] \in Chars.digit
              /\ StartsAt(s, RunEnd(s, RunEnd(s, i, Chars.digit), Chars.space), word)})

\* w1\s+w2\s+(\d+) anchored at i: the digits, <<>> when it does not match
WordsThenNumAt(s, i, w1, w2) ==
  LET Num3(p, q) == IF q > p + Len(w2) /\ IsDigitAt(s, q) THEN DigitsAt(s, q) ELSE <<>>
      Word2(p) == IF p > i + Len(w1) /\ StartsAt(s, p, w2)
                  THEN Num3(p, RunEnd(s, p + Len(w2), Chars.space)) ELSE <<>>
  IN IF StartsAt(s, i, w1) THEN Word2(RunEnd(s, i + Len(w1), Chars.space)) ELSE <<>>

\* w1\s+w2\s+(\d+) searched in s: the digits of the leftmost match
WordsThenNum(s, w1, w2) ==
  LET Found(m) == IF m = {} THEN None ELSE Some(WordsThenNumAt(s, MinOf(m), w1, w2))
  IN Found({i \in 1..Len(s) : WordsThenNumAt(s, i, w1, w2) # <<>>})

\* ---------------------------------------------------------------- strings used as data
\* the literals of the code (the "User: " prefix, the budget levels) and the texts
\* users and the provider supply
Tx ==
  [user_prefix |-> <<"U", "s", "e", "r", ":", " ">>,
   budget |-> <<"B", "u", "d", "g", "e", "t">>,
   mid_range |-> <<"M", "i", "d", "-", "r", "a", "n", "g", "e">>,
   luxury |-> <<"L", "u", "x", "u", "r", "y">>,
   food |-> <<"f", "o", "o", "d">>,
   museums |-> <<"m", "u", "s", "e", "u", "m", "s">>,
   paris |-> <<"P", "a", "r", "i", "s">>,
   rome |-> <<"R", "o", "m", "e">>,
   days3 |-> <<"3", " ", "d", "a", "y", "s">>,
   days14 |-> <<"1", "4", " ", "d", "a", "y", "s">>,
   couple |-> <<"c", "o", "u", "p", "l", "e">>,
   dates_app |-> <<"2", "0", "2", "7", "-", "0", "5", "-", "0", "1", " ", "t", "o", " ", "2", "0", "2", "7", "-", "0", "5", "-", "1", "4">>,
   dates_enh |-> <<"f", "r", "o", "m", " ", "0", "5", "-", "0", "1", " ", "t", "o", " ", "0", "5", "-", "1", "4">>,
   back_app |-> <<"2", "0", "2", "7", "-", "0", "5", "-", "1", "4", " ", "t", "o", " ", "2", "0", "2", "7", "-", "0", "5", "-", "0", "1">>,
   back_enh |-> <<"f", "r", "o", "m", " ", "0", "5", "-", "1", "4", " ", "t", "o", " ", "0", "5", "-", "0", "1">>,
   trip |-> <<"P", "a", "r", "i", "s", " ", "t", "r", "i", "p">>,
   start_over |-> <<"S", "t", "a", "r", "t", " ", "O", "v", "e", "r">>,
   days5 |-> <<"5", " ", "d", "a", "y", "s">>,
   week1 |-> <<"1", " ", "w", "e", "e", "k">>,
   day2 |-> <<"d", "a", "y", " ", "2">>,
   weeks2 |-> <<"2", " ", "w", "e", "e", "k", "s">>,
   add_food |-> <<"a", "d", "d", " ", "f", "o", "o", "d">>,
   answer_x |-> <<"A", "n", "s", "w", "e", "r", ":", " ", "X">>]

\* ---------------------------------------------------------------- Python values
PyNone == [t |-> "none"]
Text(str) == [t |-> "text", s |-> str]
Num(k) == [t |-> "int", n |-> k]
List(items) == [t |-> "list", e |-> items]
Log(q) == [t |-> "log", q |-> q]
Dict(rec) == [t |-> "dict", d |-> rec]
Ref(i) == [t |-> "ref", r |-> i]
Atom(a) == [t |-> "atom", a |-> a]

\* bool(v)
Truthy(v) ==
  CASE v.t = "none" -> FALSE
    [] v.t = "text" -> v.s # <<>>
    [] v.t = "int" -> v.n # 0
    [] v.t = "list" -> v.e # <<>>
    [] v.t = "log" -> v.q # <<>>
    [] v.t = "dict" -> TRUE
    [] v.t = "ref" -> TRUE
    [] v.t = "atom" -> TRUE

\* dict.get(k) and dict.get(k, default)
Get(d, k) == IF k \in DOMAIN d THEN d[k] ELSE PyNone
GetOr(d, k, default) == IF k \in DOMAIN d THEN d[k] ELSE default

\* d[k] = v
Put(d, k, v) == [x \in (DOMAIN d) \cup {k} |-> IF x = k THEN v ELSE d[x]]

\* if v: d[k] = v
PutIfTruthy(d, k, v) == IF Truthy(v) THEN Put(d, k, v) ELSE d

\* ---------------------------------------------------------------- session context
Sessions == {"s1", "s2"}
Variants == {"app", "enhanced"}

\* the dict literal of get_session_context
FreshContext(v) ==
  LET base == [stage |-> Atom("initial"),
               destination |-> PyNone,
               destination_info |-> PyNone,
               weather_data |-> PyNone,
               price_data |-> PyNone,
               travel_dates |-> PyNone,
               season |-> PyNone,
               duration |-> PyNone,
               budget_level |-> PyNone,
               interests |-> List(<<>>),
               messages |-> Log(<<>>),
               current_plan |-> PyNone,
               conversation_state |-> Atom("planning")]
  IN IF v = "enhanced" THEN Put(base, "group_size", PyNone) ELSE base

\* the dict literal of the reset branch of chat; it is the same in both files
ResetLiteral ==
  [stage |-> Atom("initial"),
   destination |-> PyNone,
   destination_info |-> PyNone,
   weather_data |-> PyNone,
   price_data |-> PyNone,
   travel_dates |-> PyNone,
   season |-> PyNone,
   duration |-> PyNone,
   budget_level |-> PyNone,
   interests |-> List(<<>>),
   messages |-> Log(<<>>),
   current_plan |-> PyNone,
   conversation_state |-> Atom("planning")]

\* context.update({...}) without the context.clear() before it: keys the literal does
\* not name keep their values
ResetContextNoClear(v, context) ==
  [k \in DOMAIN context \cup DOMAIN ResetLiteral |->
     IF k \in DOMAIN ResetLiteral THEN ResetLiteral[k] ELSE context[k]]

\* context.clear() followed by context.update({...})
ResetContext(v, context) == ResetLiteral

\* get_session_context: the context of the session, created when absent
get_session_context(ss, v, sid) == IF sid \in DOMAIN ss THEN ss[sid] ELSE FreshContext(v)

\* the word lists the code searches a lowered text for
Phrases ==
  [reset |-> {<<"n", "e", "w", " ", "t", "r", "i", "p">>, <<"d", "i", "f", "f", "e", "r", "e", "n", "t", " ", "d", "e", "s", "t", "i", "n", "a", "t", "i", "o", "n">>, <<"s", "t", "a", "r", "t", " ", "o", "v", "e", "r">>, <<"n", "e", "w", " ", "p", "l", "a", "n">>, <<"p", "l", "a", "n", " ", "a", "n", "o", "t", "h", "e", "r">>},
   labels |-> {<<"d", "e", "s", "t", "i", "n", "a", "t", "i", "o", "n", ":">>, <<"a", "n", "s", "w", "e", "r", ":">>, <<"r", "e", "s", "u", "l", "t", ":">>},
   budget |-> {<<"b", "u", "d", "g", "e", "t">>, <<"c", "h", "e", "a", "p">>, <<"a", "f", "f", "o", "r", "d", "a", "b", "l", "e">>},
   luxury |-> {<<"l", "u", "x", "u", "r", "y">>, <<"e", "x", "p", "e", "n", "s", "i", "v", "e">>, <<"p", "r", "e", "m", "i", "u", "m">>},
   add |-> {<<"a", "d", "d">>, <<"i", "n", "c", "l", "u", "d", "e">>, <<"m", "o", "r", "e">>},
   remove |-> {<<"r", "e", "m", "o", "v", "e">>, <<"d", "e", "l", "e", "t", "e">>, <<"l", "e", "s", "s">>},
   replace |-> {<<"c", "h", "a", "n", "g", "e">>, <<"d", "i", "f", "f", "e", "r", "e", "n", "t">>, <<"i", "n", "s", "t", "e", "a", "d">>},
   follow_up |-> {<<"m", "o", "d", "i", "f", "y">>, <<"c", "h", "a", "n", "g", "e">>, <<"u", "p", "d", "a", "t", "e">>, <<"e", "d", "i", "t">>, <<"a", "d", "d">>, <<"r", "e", "m", "o", "v", "e">>, <<"i", "n", "s", "t", "e", "a", "d">>, <<"d", "i", "f", "f", "e", "r", "e", "n", "t">>, <<"m", "o", "r", "e">>, <<"l", "e", "s", "s">>, <<"s", "w", "i", "t", "c", "h">>, <<"r", "e", "p", "l", "a", "c", "e">>, <<"a", "d", "j", "u", "s", "t">>}]

IsReset(user_input) == \E phrase \in Phrases.reset : Contains(Lower(user_input), phrase)

\* ---------------------------------------------------------------- provider outcomes
\* One llm.invoke either raises or returns content; the content holds no
\* brace-delimited object ("text"), one that json.loads rejects ("badjson"),
\* or one that parses ("json", with the parsed value).
LlmRaise == [kind |-> "raise"]
LlmText(c) == [kind |-> "text", s |-> c]
LlmBadJson == [kind |-> "badjson"]
LlmJson(v) == [kind |-> "json", v |-> v]

\* ---------------------------------------------------------------- Destination Resolver


\* re.sub(r'^(Destination:|Answer:|Result:)\s*', '', s, flags=re.IGNORECASE)
StripLabel(s) ==
  LET Cut(l) == SubSeq(s, RunEnd(s, Len(l) + 1, Chars.space), Len(s))
      Found(hit) == IF hit = {} THEN s ELSE Cut(CHOOSE x \in hit : TRUE)
  IN Found({l \in Phrases.labels : StartsAt(Lower(s), 1, l)})

\* str.strip(chars)
RECURSIVE StripChars(_, _)
StripChars(s, C) ==
  IF s = <<>> THEN s
  ELSE IF s[1] \in C THEN StripChars(Tail(s), C)
  ELSE IF s[Len(s)] \in C THEN StripChars(SubSeq(s, 1, Len(s) - 1), C)
  ELSE s

\* re.sub(r'[^\w\s]', '', s)
KeepWordAndSpace(s) == SelectSeq(s, LAMBDA c : c \in Chars.word \/ IsSpace(c))

\* extract_destination_from_text: the destination, or PyNone
extract_destination_from_text(v, out) ==
  LET App(d) == IF Len(d) > 1 THEN Text(d) ELSE PyNone
      Enh(d) == IF d # <<>> THEN Text(d) ELSE PyNone
  IN IF out.kind # "text" THEN PyNone
     ELSE IF v = "app" THEN App(StripChars(StripLabel(Strip(out.s)), {"\"", "'", " "}))
     ELSE Enh(Strip(KeepWordAndSpace(Strip(out.s))))

\* get_destination_info: a dict in every case
get_destination_info(v, destination, out) ==
  IF v = "app" THEN
    IF out.kind = "json"
    THEN Dict([name |-> destination, description |-> Text(<<"d">>),
               attractions |-> Log(<<Tx.museums>>), activities |-> Log(<<Tx.food>>)])
    ELSE Dict([name |-> destination, description |-> PyNone,
               attractions |-> Log(<<>>), activities |-> Log(<<>>)])
  ELSE
    IF out.kind = "json"
    THEN Dict([description |-> Text(<<"d">>), attractions |-> Log(<<Tx.museums>>)])
    ELSE Dict([description |-> Text(<<"c">>), attractions |-> Log(<<<<"V">>>>)])

\* get_seasonal_weather_info: never raises; the data depends on the destination
\* and on whether travel dates are known
get_seasonal_weather_info(v, destination, travel_dates) ==
  Dict([destination |-> destination,
        forecast_type |-> IF Truthy(travel_dates) THEN "dated" ELSE "current"])

\* ---------------------------------------------------------------- Extraction Adapter
\* An extraction result is a dict in key order: a sequence of <<key, value>>.

\* (\d+)\s*(day|days|week|weeks): the leftmost match; "day" wins over "days"
FallbackDuration(low) ==
  LET Pick(dd, dw) ==
        IF IsNone(dd) /\ IsNone(dw) THEN <<>>
        ELSE IF IsNone(dw) \/ (~IsNone(dd) /\ Val(dd)[1] < Val(dw)[1])
             THEN <<<<"duration", Text(Val(dd)[2] \o <<" ">> \o Word.day)>>>>
             ELSE <<<<"duration", Text(Val(dw)[2] \o <<" ">> \o Word.week)>>>>
  IN Pick(NumThenWord(low, Word.day), NumThenWord(low, Word.week))

\* solo\s+trip searched in low
SoloTrip(low) ==
  \E i \in 1..Len(low) :
    /\ StartsAt(low, i, Word.solo)
    /\ RunEnd(low, i + 4, Chars.space) > i + 4
    /\ StartsAt(low, RunEnd(low, i + 4, Chars.space), Word.trip)

\* the group patterns, tried in order
FallbackGroup(low) ==
  LET Size(digits) == <<<<"group_size", Text(digits \o Word.sp_people)>>>>
      P6(g6) == IF ~IsNone(g6) THEN Size(Val(g6)) ELSE <<>>
      P3(g3) ==
        IF ~IsNone(g3) THEN Size(Val(g3)[2])
        ELSE IF SoloTrip(low) THEN <<<<"group_size", Text(Word.solo_trip)>>>>
        ELSE IF Contains(low, Word.couple) THEN <<<<"group_size", Text(Word.couple)>>>>
        ELSE P6(WordsThenNum(low, Word.group, Word.of_))
      P2(g2) == IF ~IsNone(g2) THEN Size(Val(g2)) ELSE P3(NumThenWord(low, Word.person))
      P1(g1) == IF ~IsNone(g1) THEN Size(Val(g1)[2]) ELSE P2(WordsThenNum(low, Word.family, Word.of_))
  IN P1(NumThenWord(low, Word.peopl))

\* (\d{1,2}-\d{1,2})\s*(?:to|until)\s*(\d{1,2}-\d{1,2}) searched in text
FallbackDates(text) ==
  LET Made(g) == <<<<"travel_dates", Text(Word.from_sp \o g[1] \o Word.sp_to_sp \o g[2])>>>>
      Found(dm) == IF dm = {} THEN <<>> ELSE Made(RangeAt(text, MinOf(dm)))
  IN Found({i \in 1..Len(text) : RangeAt(text, i) # <<>>})

FallbackBudget(low) ==
  IF \E w \in Phrases.budget : Contains(low, w) THEN Text(Tx.budget)
  ELSE IF \E w \in Phrases.luxury : Contains(low, w) THEN Text(Tx.luxury)
  ELSE Text(Tx.mid_range)

\* the regular-expression fallback of enhanced_planner.py extract_travel_details
FallbackDetails(text) ==
  LET Of(low) == FallbackDuration(low) \o <<<<"budget_level", FallbackBudget(low)>>>>
                 \o FallbackGroup(low) \o FallbackDates(text)
  IN Of(Lower(text))

\* extract_travel_details: every provider failure gives {} in app.py; in
\* enhanced_planner.py a raise gives {} and unusable content gives the fallback
extract_travel_details(v, text, out) ==
  IF out.kind = "json" THEN out.v
  ELSE IF v = "app" \/ out.kind = "raise" THEN <<>>
  ELSE FallbackDetails(text)

parse_travel_dates(v, value) ==
  LET Wrap(r) == IF IsNone(r) THEN PyNone ELSE Dict(Val(r))
  IN IF value.t # "text" THEN PyNone
     ELSE Wrap(IF v = "app" THEN ParseTravelDatesApp(value.s) ELSE ParseTravelDatesEnh(value.s))

\* context['interests'].extend(value); context['interests'] = list(set(...)).
\* A str extends by its characters; a value that is not iterable raises.
ExtendRaises(value) == value.t \notin {"list", "text"}
ExtendItems(value) ==
  IF value.t = "list" THEN value.e ELSE [i \in 1..Len(value.s) |-> <<value.s[i]>>]

\* list(set(items)): each distinct item once.  Python leaves the order to the hashes;
\* the order of first occurrence stands for it, and nothing reads the order.
Dedup(items) ==
  LET Pick(keep) ==
        [k \in 1..Cardinality(keep) |->
           items[CHOOSE i \in keep : Cardinality({j \in keep : j < i}) = k - 1]]
  IN Pick({i \in 1..Len(items) : \A j \in 1..(i - 1) : items[j] # items[i]})

\* one iteration of the merge loop of chat: the context after it, and whether it raised
MergeOne(v, context, key, value) ==
  IF ~Truthy(value) THEN [context |-> context, raised |-> FALSE]
  ELSE IF key = "interests"
  THEN IF ExtendRaises(value) THEN [context |-> context, raised |-> TRUE]
       ELSE [context |-> Put(context, "interests",
                             List(Dedup(context["interests"].e \o ExtendItems(value)))),
             raised |-> FALSE]
  ELSE IF key = "travel_dates"
  THEN [context |-> PutIfTruthy(context, "travel_dates", parse_travel_dates(v, value)),
        raised |-> FALSE]
  ELSE [context |-> Put(context, key, value), raised |-> FALSE]

\* the merge loop of chat over details.items(): it stops where an iteration raises
RECURSIVE MergeDetails(_, _, _)
MergeRest(v, step, rest) ==
  IF step.raised THEN step ELSE MergeDetails(v, step.context, rest)

MergeDetails(v, context, details) ==
  IF details = <<>> THEN [context |-> context, raised |-> FALSE]
  ELSE MergeRest(v, MergeOne(v, context, details[1][1], details[1][2]), Tail(details))

\* ---------------------------------------------------------------- follow-up questions
\* ask_follow_up_questions: the slots asked about in the reply, in order (<<>> is
\* the None result: everything is collected), and whether the call raised
ask_follow_up_questions(v, context) ==
  LET Ask(missing) ==
        IF missing = <<>> THEN [raised |-> FALSE, slots |-> <<>>]
        \* dest_info.get(...) on a destination_info of None
        ELSE IF Get(context, "destination_info").t # "dict" THEN [raised |-> TRUE, slots |-> <<>>]
        ELSE [raised |-> FALSE, slots |-> missing]
  IN IF v = "app"
     THEN Ask((IF ~Truthy(Get(context, "duration")) THEN <<"duration">> ELSE <<>>)
              \o (IF ~Truthy(Get(context, "budget_level")) THEN <<"budget">> ELSE <<>>)
              \o (IF ~Truthy(Get(context, "interests")) THEN <<"interests">> ELSE <<>>))
     ELSE IF ~Truthy(Get(context, "duration")) THEN [raised |-> FALSE, slots |-> <<"duration">>]
     ELSE IF ~Truthy(Get(context, "budget_level")) THEN [raised |-> FALSE, slots |-> <<"budget">>]
     ELSE IF ~Truthy(Get(context, "group_size")) THEN [raised |-> FALSE, slots |-> <<"group_size">>]
     ELSE IF ~Truthy(Get(context, "travel_dates"))
     THEN [raised |-> FALSE, slots |-> <<"travel_dates">>]
     ELSE IF ~Truthy(Get(context, "interests")) THEN [raised |-> FALSE, slots |-> <<"interests">>]
     ELSE [raised |-> FALSE, slots |-> <<>>]

\* ---------------------------------------------------------------- Itinerary Synthesizer
DetailLimit == 10
DefaultDays == 5

\* num_days as create_fallback_plan computes it: the first integer of the
\* duration text, 5 without one, overridden by travel_dates['duration_days']
FallbackDays(v, duration, travel_dates) ==
  LET Over(n) ==
        IF v = "app"
        THEN IF Truthy(travel_dates) THEN travel_dates.d.duration_days ELSE n
        ELSE IF Truthy(travel_dates) /\ travel_dates.d.duration_days # 0
             THEN travel_dates.d.duration_days ELSE n
      Of(m) == Over(IF IsNone(m) THEN DefaultDays ELSE DigitsToInt(Val(m)))
  IN Of(FirstDigits(duration.s))

\* num_days as create_currency_aware_itinerary puts it in the prompt
PromptDays(v, duration, travel_dates) ==
  LET Clamp(n) == IF v = "app" THEN (IF n < DetailLimit THEN n ELSE DetailLimit) ELSE n
  IN Clamp(FallbackDays(v, duration, travel_dates))

Days(q) == [t |-> "days", days |-> q]

DayTitle(v, day, num_days) ==
  IF v = "app" THEN "Exploration"
  ELSE IF day = 1 THEN "Arrival"
  ELSE IF day = num_days THEN "Departure"
  ELSE "Day"

\* create_fallback_plan: the template plan; range(1, num_days + 1) is empty below 1
create_fallback_plan(v, destination, duration, budget_level, travel_dates, group_size) ==
  LET Plan(num_days) ==
        [destination |-> destination,
         duration |-> duration,
         budget_range |-> budget_level,
         travel_dates |-> travel_dates,
         itinerary |-> Days([day \in 1..num_days |->
                               [day_number |-> day, title |-> DayTitle(v, day, num_days)]])]
      Sized(plan) ==
        IF v = "app" THEN plan
        ELSE Put(plan, "group_size", IF Truthy(group_size) THEN group_size ELSE Text(<<"N">>))
  IN Sized(Plan(FallbackDays(v, duration, travel_dates)))

\* the record of the last except clause of enhanced_planner.py create_currency_aware_itinerary
ErrorPlan(destination, duration, budget_level) ==
  [destination |-> destination,
   duration |-> duration,
   budget_range |-> budget_level,
   error |-> Atom("Failed to create detailed itinerary")]

\* the objects the provider may return for the itinerary prompt: one that follows
\* the prompt, and one that holds a single day and nothing else
LlmPlans(v, context) ==
  LET Of(n) ==
        {[destination |-> Get(context, "destination"),
          duration |-> Get(context, "duration"),
          budget_range |-> Get(context, "budget_level"),
          travel_dates |-> Get(context, "travel_dates"),
          itinerary |-> Days([day \in 1..n |-> [day_number |-> day, title |-> "Llm"]])],
         [itinerary |-> Days(<<[day_number |-> 1, title |-> "Llm"]>>)]}
  IN Of(PromptDays(v, Get(context, "duration"), Get(context, "travel_dates")))

\* what raises before the provider is called: re.search on a duration that is not
\* a str, and .get on a travel_dates or weather_data of None while the prompt is built
PromptRaises(context) ==
  \/ Get(context, "duration").t # "text"
  \/ Get(context, "travel_dates").t # "dict"
  \/ Get(context, "weather_data").t # "dict"

\* create_currency_aware_itinerary.  app.py builds the prompt outside its try, so
\* PromptRaises propagates; enhanced_planner.py wraps everything, the provider
\* call included, in a try whose except returns ErrorPlan.
create_currency_aware_itinerary(v, context, out) ==
  LET destination == Get(context, "destination")
      duration == Get(context, "duration")
      budget_level == Get(context, "budget_level")
      travel_dates == Get(context, "travel_dates")
      fallback == create_fallback_plan(v, destination, duration, budget_level, travel_dates,
                                       Get(context, "group_size"))
  IN IF v = "app" THEN
       IF PromptRaises(context) THEN [raised |-> TRUE, path |-> "raised", plan |-> <<>>]
       ELSE IF out.kind = "json" THEN [raised |-> FALSE, path |-> "llm", plan |-> out.v]
       ELSE [raised |-> FALSE, path |-> "fallback", plan |-> fallback]
     ELSE
       IF PromptRaises(context) \/ out.kind = "raise"
       THEN [raised |-> FALSE, path |-> "error", plan |-> ErrorPlan(destination, duration, budget_level)]
       ELSE IF out.kind = "json"
       THEN [raised |-> FALSE, path |-> "llm",
             plan |-> Put(Put(Put(Put(out.v, "destination", destination), "duration", duration),
                              "budget_range", budget_level), "travel_dates", travel_dates)]
       ELSE [raised |-> FALSE, path |-> "fallback", plan |-> fallback]

\* ---------------------------------------------------------------- chat
\* A response dict: `error` tells whether it has an "error" key, `ref` is the plan
\* object it carries (0 for none), `slots` the slots a follow-up question asks about.
Response(success, is_json, kind, slots, ref, error) ==
  [success |-> success, is_json |-> is_json, kind |-> kind, slots |-> slots, ref |-> ref,
   error |-> error, propagated |-> FALSE]

\* the response of the handler's `except Exception as e` clause
ErrorResponse == Response(FALSE, FALSE, "error", <<>>, 0, TRUE)

\* an exception that leaves the handler: there is no response
Propagated == [success |-> FALSE, is_json |-> FALSE, kind |-> "raise", slots |-> <<>>, ref |-> 0,
               error |-> FALSE, propagated |-> TRUE]

\* the except clause of chat: `return {"success": False, "error": str(e), ...}`
OnException == ErrorResponse

\* plan_id = f"{session_id}_{datetime.now().strftime('%Y%m%d_%H%M%S')}": the session
\* and the clock in whole seconds
PlanId(sid, now) == [t |-> "id", sid |-> sid, ts |-> now]

\* the assignment to stored_plans left out
StorePlanSkipped(store, plan_id, ref) == store

\* stored_plans[plan_id] = plan: the store keeps a reference to the plan object
StorePlan(store, plan_id, ref) == Put(store, plan_id, ref)

\* what one call of chat leaves: the state, the response, whether the except clause
\* produced it, and what the call did
ChatOutcome(ss, pl, store, raised, resp, synth_calls, synth_path, reset) ==
  [sessions |-> ss, plans |-> pl, stored_plans |-> store, raised |-> raised, resp |-> resp,
   synth_calls |-> synth_calls, synth_path |-> synth_path, reset |-> reset]

\* context['messages'].append(f"User: {user_input}")
AppendMessage(context, user_input) ==
  Put(context, "messages", Log(Append(context["messages"].q, Tx.user_prefix \o user_input)))

\* chat, `if not context['destination']`: the Destination Resolver and what it fills
ChatResolve(v, context, dest_out, info_out) ==
  LET Set(destination) ==
        IF Truthy(destination)
        THEN [context EXCEPT
                !["destination"] = destination,
                !["conversation_state"] = Atom("planning"),
                !["destination_info"] = get_destination_info(v, destination, info_out),
                !["weather_data"] =
                   get_seasonal_weather_info(v, destination, Get(context, "travel_dates")),
                !["price_data"] =
                   get_seasonal_weather_info(v, destination, Get(context, "travel_dates"))]
        ELSE context
  IN Set(IF Truthy(context["destination"]) THEN PyNone
         ELSE extract_destination_from_text(v, dest_out))

\* chat, "All information collected": the plan becomes current_plan, gets its plan_id
\* and (in app.py) its Plan Store entry
ChatPlan(v, ss, pl, store, now, sid, context, syn) ==
  LET Made(plan_id, ref) ==
        ChatOutcome(Put(ss, sid, [context EXCEPT !["current_plan"] = Ref(ref),
                                                 !["conversation_state"] = Atom("plan_created")]),
                    Append(pl, Put(Put(syn.plan, "plan_id", plan_id),
                                   "download_instructions", plan_id)),
                    IF v = "app" THEN StorePlan(store, plan_id, ref) ELSE store,
                    FALSE, Response(TRUE, TRUE, "plan", <<>>, ref, FALSE), 1, syn.path, FALSE)
  IN Made(PlanId(sid, now), Len(pl) + 1)

\* chat, "Handle conversation flow"
ChatReply(v, ss, pl, store, now, sid, context, fu, syn) ==
  IF ~Truthy(context["destination"])
  THEN ChatOutcome(Put(ss, sid, context), pl, store, FALSE,
                   Response(TRUE, FALSE, "greeting", <<>>, 0, FALSE), 0, "none", FALSE)
  ELSE IF fu.raised
  THEN ChatOutcome(Put(ss, sid, context), pl, store, TRUE, OnException, 0, "none", FALSE)
  ELSE IF fu.slots # <<>>
  THEN ChatOutcome(Put(ss, sid, context), pl, store, FALSE,
                   Response(TRUE, FALSE, "question", fu.slots, 0, FALSE), 0, "none", FALSE)
  ELSE IF syn.raised
  THEN ChatOutcome(Put(ss, sid, context), pl, store, TRUE, OnException, 1, syn.path, FALSE)
  ELSE ChatPlan(v, ss, pl, store, now, sid, context, syn)

\* chat after the merge loop; m is the loop's result
ChatFlow(v, ss, pl, store, now, sid, m, synth_out) ==
  IF m.raised
  THEN ChatOutcome(Put(ss, sid, m.context), pl, store, TRUE, OnException, 0, "none", FALSE)
  ELSE ChatReply(v, ss, pl, store, now, sid, m.context,
                 ask_follow_up_questions(v, m.context),
                 create_currency_aware_itinerary(v, m.context, synth_out))

\* SimpleTravelPlannerAgent.chat.  The inputs of one call are the provider's outcome
\* for each prompt.  Only the chat of app.py writes stored_plans itself.
ChatBody(v, ss, pl, store, now, sid, user_input, dest_out, info_out, details_out, synth_out) ==
  IF IsReset(user_input)
  THEN ChatOutcome(Put(ss, sid, ResetContext(v, AppendMessage(get_session_context(ss, v, sid),
                                                             user_input))),
                   pl, store, FALSE,
                   Response(TRUE, FALSE, "reset", <<>>, 0, FALSE), 0, "none", TRUE)
  ELSE ChatFlow(v, ss, pl, store, now, sid,
                MergeDetails(v,
                             ChatResolve(v, AppendMessage(get_session_context(ss, v, sid),
                                                          user_input),
                                         dest_out, info_out),
                             extract_travel_details(v, user_input, details_out)),
                synth_out)

\* ---------------------------------------------------------------- Follow-Up Modifier

Analysis(change_type, change_target, details) ==
  [change_type |-> change_type, change_target |-> change_target, details |-> details]

\* analyze_follow_up_request: the provider's object as it is, the keyword
\* classification when the content has no usable object, the default when it raises
analyze_follow_up_request(user_input, out) ==
  LET low == Lower(user_input)
  IN IF out.kind = "json" THEN out.v
     ELSE IF out.kind = "raise" THEN Analysis("modify", "general", Text(user_input))
     ELSE IF \E w \in Phrases.add : Contains(low, w) THEN Analysis("add", "general", Text(user_input))
     ELSE IF \E w \in Phrases.remove : Contains(low, w) THEN Analysis("remove", "general", Text(user_input))
     ELSE IF \E w \in Phrases.replace : Contains(low, w) THEN Analysis("replace", "general", Text(user_input))
     ELSE Analysis("modify", "general", Text(user_input))

\* modify_plan_based_on_request: `fresh` tells whether the result is a new dict
\* (the provider's object with the metadata copied onto it) or current_plan itself
\* modified_plan[key] = current_plan.get(key) for each key of the metadata, in order
RECURSIVE Preserve(_, _, _)
Preserve(modified_plan, current_plan, keys) ==
  IF keys = <<>> THEN modified_plan
  ELSE Preserve(Put(modified_plan, Head(keys), Get(current_plan, Head(keys))),
                current_plan, Tail(keys))

PreservedKeys ==
  <<"plan_id", "destination", "duration", "budget_range", "travel_dates", "weather_info",
    "price_estimates">>

\* the provider's object returned as it is
ModifyUnpreserved(current_plan, modification_request, out) ==
  IF out.kind = "json" THEN [fresh |-> TRUE, plan |-> out.v]
  ELSE [fresh |-> FALSE, plan |-> current_plan]

modify_plan_based_on_request(current_plan, modification_request, out) ==
  IF out.kind = "json"
  THEN [fresh |-> TRUE, plan |-> Preserve(out.v, current_plan, PreservedKeys)]
  ELSE IF out.kind = "raise" THEN [fresh |-> FALSE, plan |-> current_plan]
  ELSE [fresh |-> FALSE,
        plan |-> Put(current_plan, "modification_note", modification_request.details)]

\* int(plan_id.split('_')[-1]): the HHMMSS field of the timestamp, read as a number
HHMMSS(ts) == (ts \div 3600) * 10000 + ((ts \div 60) % 60) * 100 + (ts % 60)

\* the trip row handle_follow_up_request rewrites: Trip.query.filter_by(id=...).first()
TripToRewrite(tr, plan, db_ok) ==
  LET pid == Get(plan, "plan_id")
  IN IF db_ok /\ pid.t = "id" /\ HHMMSS(pid.ts) \in 1..Len(tr) THEN HHMMSS(pid.ts) ELSE 0

\* a planner that keeps one context dict and hands it to every session
OutcomeShared(ss, pl, store, tr, conv, resp, inner, handler, raised, synth_calls, synth_path, reset) ==
  [sessions |-> [s \in DOMAIN ss |-> ss[CHOOSE one \in DOMAIN ss : TRUE]],
   plans |-> pl, stored_plans |-> store, trips |-> tr, conversations |-> conv,
   resp |-> resp, inner |-> inner, handler |-> handler, raised |-> raised,
   synth_calls |-> synth_calls, synth_path |-> synth_path, reset |-> reset]

\* what a handler of EnhancedTravelPlanner leaves
Outcome(ss, pl, store, tr, conv, resp, inner, handler, raised, synth_calls, synth_path, reset) ==
  [sessions |-> ss, plans |-> pl, stored_plans |-> store, trips |-> tr, conversations |-> conv,
   resp |-> resp, inner |-> inner, handler |-> handler, raised |-> raised,
   synth_calls |-> synth_calls, synth_path |-> synth_path, reset |-> reset]

FollowUpOutcome(ss, pl, store, tr, conv, resp) ==
  Outcome(ss, pl, store, tr, conv, resp, resp, "followup", FALSE, 0, "none", FALSE)

\* handle_follow_up_request once the plan is modified: current_plan, the trip row, the reply
FollowUpSave(ss, pl, store, tr, conv, sid, context, mod, db_ok) ==
  LET Saved(ref, k) ==
        FollowUpOutcome(Put(ss, sid, [context EXCEPT !["current_plan"] = Ref(ref)]),
                        IF mod.fresh THEN Append(pl, mod.plan) ELSE [pl EXCEPT ![ref] = mod.plan],
                        store,
                        IF k = 0 THEN tr ELSE [tr EXCEPT ![k].itinerary_data = mod.plan],
                        conv,
                        Response(TRUE, TRUE, "plan", <<>>, ref, FALSE))
  IN Saved(IF mod.fresh THEN Len(pl) + 1 ELSE context["current_plan"].r,
           TripToRewrite(tr, mod.plan, db_ok))

\* handle_follow_up_request
FollowUpBody(v, ss, pl, store, tr, conv, sid, user_input, analysis_out, modify_out, db_ok) ==
  LET Of(context) ==
        IF ~Truthy(context["current_plan"])
        THEN FollowUpOutcome(Put(ss, sid, context), pl, store, tr, conv,
                             Response(FALSE, FALSE, "noplan", <<>>, 0, FALSE))
        ELSE FollowUpSave(ss, pl, store, tr, conv, sid, context,
                          modify_plan_based_on_request(
                             pl[context["current_plan"].r],
                             analyze_follow_up_request(user_input, analysis_out),
                             modify_out),
                          db_ok)
  IN Of(get_session_context(ss, v, sid))

\* ---------------------------------------------------------------- enhanced_chat

IsFollowUp(user_input) == \E w \in Phrases.follow_up : Contains(Lower(user_input), w)


\* ', '.join(items[:2])
JoinTwo(items) ==
  IF Len(items) = 0 THEN <<>>
  ELSE IF Len(items) = 1 THEN items[1]
  ELSE items[1] \o Word.comma_sp \o items[2]

\* get_user_context(user_id)['preferences']: None when the user or the database is missing
Preferences(us, user_id, db_ok) == IF db_ok /\ user_id \in DOMAIN us THEN Some(us[user_id]) ELSE None

\* the request enhanced with the user's preferences
EnhancedInput(user_input, prefs) ==
  IF IsNone(prefs) THEN user_input
  ELSE user_input
       \o (IF Val(prefs).budget_level # <<>> /\ ~Contains(Lower(user_input), Word.budget)
           THEN Word.sp_with_sp \o Val(prefs).budget_level \o Word.sp_budget ELSE <<>>)
       \o (IF Val(prefs).interests # <<>>
           THEN Word.sp_interested_in_sp \o JoinTwo(Val(prefs).interests) ELSE <<>>)

\* save_conversation and save_trip: a row is added unless the database fails
save_conversation(conv, user_id, sid, db_ok) ==
  IF db_ok THEN Append(conv, [user_id |-> user_id, session_id |-> sid]) ELSE conv

save_trip(tr, user_id, plan_data, db_ok) ==
  IF db_ok THEN Append(tr, [user_id |-> user_id, itinerary_data |-> plan_data]) ELSE tr

\* enhanced_chat after chat returned r: the conversation row, the Plan Store entry and
\* the trip row; the except clause of enhanced_chat
EnhancedSave(r, tr, conv, sid, user_id, db_ok) ==
  LET Stored(made, plan_data) ==
        Outcome(r.sessions, r.plans,
                IF made /\ "plan_id" \in DOMAIN plan_data
                THEN StorePlan(r.stored_plans, plan_data["plan_id"], r.resp.ref)
                ELSE r.stored_plans,
                IF made THEN save_trip(tr, user_id, plan_data, db_ok) ELSE tr,
                IF r.resp.success THEN save_conversation(conv, user_id, sid, db_ok) ELSE conv,
                IF r.resp.propagated THEN ErrorResponse ELSE r.resp,
                r.resp, "chat", r.raised, r.synth_calls, r.synth_path, r.reset)
  IN Stored(r.resp.success /\ r.resp.is_json,
            IF r.resp.ref = 0 THEN <<>> ELSE r.plans[r.resp.ref])

\* enhanced_chat: the follow-up handler when the text holds an indicator, else chat
\* on the enhanced text, then EnhancedSave
EnhancedChatBody(ss, pl, store, tr, conv, us, now, sid, user_id, user_input, db_ok, dest_out, info_out, details_out, synth_out, analysis_out, modify_out) ==
  IF IsFollowUp(user_input)
  THEN FollowUpBody("enhanced", ss, pl, store, tr, conv, sid, user_input,
                    analysis_out, modify_out, db_ok)
  ELSE EnhancedSave(ChatBody("enhanced", ss, pl, store, now, sid,
                             EnhancedInput(user_input, Preferences(us, user_id, db_ok)),
                             dest_out, info_out, details_out, synth_out),
                    tr, conv, sid, user_id, db_ok)

\* the /chat route of app.py: 400 without a message, else the agent's response
RejectResponse == Response(FALSE, FALSE, "reject", <<>>, 0, TRUE)


\* ---------------------------------------------------------------- Plan Store download
\* json.dumps(plan_data, indent=2): the document as its set of members; Loads reads it back
Dumps(plan_data) == [t |-> "json", members |-> {<<k, plan_data[k]>> : k \in DOMAIN plan_data}]
Loads(doc) ==
  [k \in {member[1] : member \in doc.members} |->
     (CHOOSE member \in doc.members : member[1] = k)[2]]

DownloadResult(status, kind, body) == [status |-> status, kind |-> kind, body |-> body]

\* a download that serves an empty document for an id it does not find
DownloadUnchecked(store, pl, plan_id) ==
  IF plan_id = PyNone \/ plan_id \notin DOMAIN store
  THEN DownloadResult(200, "json", Dumps(<<>>))
  ELSE DownloadResult(200, "json", Dumps(pl[store[plan_id]]))

\* simple_download with format=json: 404 without a stored plan; .replace on a
\* destination that is not a str raises, and the except clause answers 500
simple_download(store, pl, plan_id) ==
  IF plan_id = PyNone \/ plan_id \notin DOMAIN store
  THEN DownloadResult(404, "notfound", PyNone)
  ELSE IF GetOr(pl[store[plan_id]], "destination", Text(<<>>)).t # "text"
  THEN DownloadResult(500, "error", PyNone)
  ELSE DownloadResult(200, "json", Dumps(pl[store[plan_id]]))

\* ---------------------------------------------------------------- inputs
\* the plan_id of a download request: none, or an id of the form chat gives
PlanIds == {PyNone} \cup {PlanId(sid, ts) : sid \in Sessions, ts \in 0..MaxClock}
\* the texts of the requests: the message of a POST /chat (<<>> is a request without
\* one), the texts given to enhanced_chat and to handle_follow_up_request, the texts
\* with a duration phrase, the names given to the weather and price services, and the
\* fields of the register and login requests ("" is a field left out)
Texts ==
  [route |-> {<<>>, Tx.trip, Tx.start_over},
   enhanced |-> {Tx.days5, Tx.start_over, Tx.add_food},
   follow_up |-> {Tx.days5, Tx.add_food},
   duration |-> {Tx.days5, Tx.week1, Tx.weeks2},
   city |-> {Tx.paris, Tx.rome, Tx.trip, <<>>},
   username |-> {"", "ann", "bob"},
   email |-> {"", "ann@x.org", "bob@x.org"},
   password |-> {"", "pw1", "pw2"}]

\* what the provider may return for the destination prompt, the analysis prompt and
\* the modification prompt, and for the extraction prompts of two concurrent turns
Outs ==
  [dest |-> {LlmRaise, LlmText(Tx.paris), LlmText(Tx.answer_x)},
   analysis |-> {LlmRaise, LlmText(<<>>), LlmJson(Analysis("remove", "day", Text(Tx.day2))), LlmJson(Analysis("modify", "budget", Text(Tx.luxury)))},
   modify |-> {LlmRaise, LlmText(<<>>), LlmBadJson, LlmJson([destination |-> Text(Tx.rome), itinerary |-> Days(<<[day_number |-> 1, title |-> "Mod"]>>)])},
   race |-> {LlmJson(<<<<"interests", List(<<Tx.food>>)>>>>),
             LlmJson(<<<<"interests", List(<<Tx.museums, Tx.food, Tx.museums>>)>>>>),
             LlmJson(<<<<"duration", Text(Tx.days3)>>, <<"budget_level", Text(Tx.budget)>>>>)}]

\* the user a session belongs to
Owner(sid) == IF sid = "s1" THEN 1 ELSE 2

\* the objects the provider may return for the extraction prompt
DetailsChoices(v) ==
  LET dates == Text(IF v = "app" THEN Tx.dates_app ELSE Tx.dates_enh)
      back == Text(IF v = "app" THEN Tx.back_app ELSE Tx.back_enh)
  IN {<<>>,
      <<<<"travel_dates", back>>>>,
      <<<<"duration", Text(Tx.days3)>>>>,
      <<<<"budget_level", Text(Tx.budget)>>, <<"interests", List(<<Tx.food>>)>>>>,
      <<<<"group_size", Text(Tx.couple)>>, <<"travel_dates", dates>>>>,
      <<<<"duration", Text(Tx.days3)>>, <<"budget_level", Text(Tx.budget)>>,
        <<"interests", List(<<Tx.food>>)>>>>,
      <<<<"duration", Text(Tx.days14)>>, <<"budget_level", Text(Tx.luxury)>>,
        <<"group_size", Text(Tx.couple)>>, <<"travel_dates", dates>>,
        <<"interests", List(<<Tx.food, Tx.museums, Tx.food>>)>>>>,
      <<<<"interests", Num(5)>>>>,
      <<<<"interests", Text(Tx.food)>>>>,
      <<<<"destination", Text(Tx.rome)>>, <<"duration", Text(Tx.days3)>>>>}

DetailsOuts(v) == {LlmRaise, LlmText(<<>>), LlmBadJson} \cup {LlmJson(d) : d \in DetailsChoices(v)}

\* whether an extraction result has the shape the prompt asks for
ShapeOk(details) ==
  \A i \in 1..Len(details) :
    IF details[i][1] = "interests" THEN details[i][2].t = "list" ELSE details[i][2].t = "text"

SynthOuts(v, context) ==
  {LlmRaise, LlmText(<<>>), LlmBadJson} \cup {LlmJson(plan) : plan \in LlmPlans(v, context)}


\* the provider is asked only on the paths that reach the prompt
DestOutsFor(ss, v, sid, text) ==
  IF text = <<>> \/ IsReset(text) \/ Truthy(get_session_context(ss, v, sid)["destination"])
  THEN {LlmRaise} ELSE Outs.dest
InfoOutsFor(dest_out) == IF dest_out = LlmText(Tx.paris) THEN {LlmJson(<<>>)} ELSE {LlmRaise}
DetailsOutsFor(v, text) == IF text = <<>> \/ IsReset(text) THEN {LlmRaise} ELSE DetailsOuts(v)
SynthOutsFor(v, probe, sid) ==
  IF probe.synth_calls = 1 /\ ~PromptRaises(probe.sessions[sid])
  THEN SynthOuts(v, probe.sessions[sid]) ELSE {LlmRaise}
ModifyOutsFor(ss, sid, outs) ==
  IF sid \in DOMAIN ss /\ Truthy(ss[sid]["current_plan"]) THEN outs ELSE {LlmRaise}

\* ---------------------------------------------------------------- the state machine
NoResponse == Response(TRUE, FALSE, "none", <<>>, 0, FALSE)

Init ==
  /\ variant \in Variants
  /\ sessions = <<>>
  /\ plans = <<>>
  /\ stored_plans = <<>>
  /\ synthesized = {}
  /\ clock = 0
  /\ trips = <<>>
  /\ conversations = <<>>
  /\ users = (1 :> [budget_level |-> Tx.mid_range, interests |-> <<>>])
             @@ (2 :> [budget_level |-> Tx.luxury, interests |-> <<Tx.food, Tx.museums>>])
  /\ current_user = 0
  /\ threads = <<>>
  /\ turns = 0
  /\ last = [op |-> "none", handler |-> "none", sid |-> "s1", reset |-> FALSE,
             resp |-> NoResponse, inner |-> NoResponse, raised |-> FALSE,
             synth_calls |-> 0, synth_path |-> "none", extract |-> "none",
             pre_state |-> PyNone, pre_plan |-> PyNone,
             plan_id |-> PyNone, status |-> 0, body |-> PyNone, interests |-> PyNone,
             request |-> PyNone]

\* the value under "interests" in the provider's extraction object, None without one
ExtractedInterests(details_out) ==
  IF details_out.kind = "json" /\ \E i \in 1..Len(details_out.v) : details_out.v[i][1] = "interests"
  THEN details_out.v[CHOOSE i \in 1..Len(details_out.v) : details_out.v[i][1] = "interests"][2]
  ELSE PyNone

\* what a turn observes: the handler that ran, its response, and the state it found
Observe(op, sid, r, details_out, request) ==
  [op |-> op, handler |-> r.handler, sid |-> sid, reset |-> r.reset,
   resp |-> r.resp, inner |-> r.inner, raised |-> r.raised,
   synth_calls |-> r.synth_calls, synth_path |-> r.synth_path,
   extract |-> IF r.handler # "chat" \/ r.reset THEN "none"
               ELSE IF details_out.kind # "json" THEN "failed"
               ELSE IF ~ShapeOk(details_out.v) THEN "shape"
               ELSE "json",
   pre_state |-> IF sid \in DOMAIN sessions THEN sessions[sid]["conversation_state"] ELSE PyNone,
   pre_plan |-> IF sid \in DOMAIN sessions THEN sessions[sid]["current_plan"] ELSE PyNone,
   plan_id |-> PyNone, status |-> 0, body |-> PyNone,
   interests |-> ExtractedInterests(details_out),
   request |-> IF r.handler = "followup" /\ r.resp.kind = "plan" THEN request ELSE PyNone]

Commit(op, sid, r, details_out, request) ==
  /\ sessions' = r.sessions
  /\ plans' = r.plans
  /\ stored_plans' = r.stored_plans
  /\ synthesized' = IF r.handler = "chat" /\ r.inner.kind = "plan"
                    THEN synthesized \cup {r.inner.ref} ELSE synthesized
  /\ trips' = r.trips
  /\ conversations' = r.conversations
  /\ turns' = turns + 1
  /\ last' = Observe(op, sid, r, details_out, request)
  /\ UNCHANGED <<variant, clock, users, current_user, threads>>


\* POST /chat of app.py: 400 without a message, else the response of travel_agent.chat;
\* the except clause of the route
ChatRouteBody(ss, pl, store, tr, conv, now, sid, user_message, dest_out, info_out, details_out, synth_out) ==
  LET Result(r) ==
        Outcome(r.sessions, r.plans, r.stored_plans, tr, conv,
                IF r.resp.propagated THEN RejectResponse ELSE r.resp,
                r.resp, "chat", r.raised, r.synth_calls, r.synth_path, r.reset)
  IN IF user_message = <<>>
     THEN Outcome(ss, pl, store, tr, conv, RejectResponse, NoResponse, "reject",
                  FALSE, 0, "none", FALSE)
     ELSE Result(ChatBody("app", ss, pl, store, now, sid, user_message,
                          dest_out, info_out, details_out, synth_out))

ChatRoute(sid, user_message) ==
  /\ variant = "app"
  /\ turns < MaxTurns
  /\ \E dest_out \in DestOutsFor(sessions, "app", sid, user_message) :
     \E info_out \in InfoOutsFor(dest_out) :
     \E details_out \in DetailsOutsFor("app", user_message) :
     \E synth_out \in SynthOutsFor("app",
                                   ChatBody("app", sessions, plans, stored_plans, clock, sid,
                                            user_message, dest_out, info_out, details_out,
                                            LlmRaise),
                                   sid) :
       Commit("chat_route", sid,
              ChatRouteBody(sessions, plans, stored_plans, trips, conversations, clock, sid,
                            user_message, dest_out, info_out, details_out, synth_out),
              details_out, PyNone)

\* EnhancedTravelPlanner.enhanced_chat on a text without a follow-up indicator
EnhancedNew(sid, user_input, db_ok, text) ==
  \E dest_out \in DestOutsFor(sessions, "enhanced", sid, text) :
  \E info_out \in InfoOutsFor(dest_out) :
  \E details_out \in DetailsOutsFor("enhanced", text) :
  \E synth_out \in SynthOutsFor("enhanced",
                                ChatBody("enhanced", sessions, plans, stored_plans, clock, sid,
                                         text, dest_out, info_out, details_out, LlmRaise),
                                sid) :
    Commit("enhanced_chat", sid,
           EnhancedChatBody(sessions, plans, stored_plans, trips, conversations, users, clock,
                            sid, Owner(sid), user_input, db_ok,
                            dest_out, info_out, details_out, synth_out, LlmRaise, LlmRaise),
           details_out, PyNone)

\* EnhancedTravelPlanner.enhanced_chat
EnhancedChat(sid, user_input, db_ok) ==
  /\ variant = "enhanced"
  /\ turns < MaxTurns
  /\ IF IsFollowUp(user_input)
     THEN \E analysis_out \in ModifyOutsFor(sessions, sid, Outs.analysis) :
          \E modify_out \in ModifyOutsFor(sessions, sid, Outs.modify) :
            Commit("enhanced_chat", sid,
                   EnhancedChatBody(sessions, plans, stored_plans, trips, conversations, users,
                                    clock, sid, Owner(sid), user_input, db_ok,
                                    LlmRaise, LlmRaise, LlmRaise, LlmRaise,
                                    analysis_out, modify_out),
                   LlmRaise, analyze_follow_up_request(user_input, analysis_out))
     ELSE EnhancedNew(sid, user_input, db_ok,
                      EnhancedInput(user_input, Preferences(users, Owner(sid), db_ok)))

\* EnhancedTravelPlanner.handle_follow_up_request, called on its own
HandleFollowUp(sid, user_input, db_ok) ==
  /\ variant = "enhanced"
  /\ turns < MaxTurns
  /\ \E analysis_out \in ModifyOutsFor(sessions, sid, Outs.analysis) :
     \E modify_out \in ModifyOutsFor(sessions, sid, Outs.modify) :
       Commit("handle_follow_up_request", sid,
              FollowUpBody("enhanced", sessions, plans, stored_plans, trips, conversations,
                           sid, user_input, analysis_out, modify_out, db_ok),
              LlmRaise, analyze_follow_up_request(user_input, analysis_out))

\* GET /simple-download?plan_id=...&format=json
Download(plan_id) ==
  /\ turns < MaxTurns
  /\ turns' = turns + 1
  /\ last' = [op |-> "download", handler |-> "download",
              sid |-> IF plan_id = PyNone THEN "s1" ELSE plan_id.sid, reset |-> FALSE,
              resp |-> NoResponse, inner |-> NoResponse, raised |-> FALSE,
              synth_calls |-> 0, synth_path |-> "none", extract |-> "none",
              pre_state |-> PyNone, pre_plan |-> PyNone, plan_id |-> plan_id,
              interests |-> PyNone, request |-> PyNone,
              status |-> simple_download(stored_plans, plans, plan_id).status,
              body |-> simple_download(stored_plans, plans, plan_id).body]
  /\ UNCHANGED <<variant, sessions, plans, stored_plans, synthesized, clock, trips,
                 conversations, users, current_user, threads>>

\* a second passes on the server's clock
Tick ==
  /\ clock < MaxClock
  /\ clock' = clock + 1
  /\ UNCHANGED <<variant, sessions, plans, stored_plans, synthesized, trips, conversations,
                 users, current_user, threads, turns, last>>

Next ==
  \/ \E sid \in Sessions, user_message \in Texts.route : ChatRoute(sid, user_message)
  \/ \E sid \in Sessions, user_input \in Texts.enhanced, db_ok \in BOOLEAN :
       EnhancedChat(sid, user_input, db_ok)
  \/ \E sid \in Sessions, user_input \in Texts.follow_up, db_ok \in BOOLEAN :
       HandleFollowUp(sid, user_input, db_ok)
  \/ \E plan_id \in PlanIds : Download(plan_id)
  \/ Tick

Spec == Init /\ [][Next]_vars

\* chat turns of enhanced_planner.py whose texts say how long the trip is
NextDurations ==
  \E user_input \in Texts.duration, db_ok \in BOOLEAN : EnhancedChat("s1", user_input, db_ok)

SpecDurations == Init /\ [][NextDurations]_vars

\* ---------------------------------------------------------------- weather and prices
\* WeatherService.get_current_weather: without an api key the mock record, which
\* carries the city it was asked for; with one, the provider's record, the mock one
\* when the request fails
get_current_weather(api_key, city, http_out) ==
  LET get_mock_weather ==
        [temperature |-> 25, feels_like |-> 27, humidity |-> 65,
         description |-> "partly cloudy", icon |-> "02d", wind_speed |-> "5.2",
         city |-> city, country |-> "Unknown"]
  IN IF Truthy(api_key) /\ http_out.kind = "json" THEN http_out.v ELSE get_mock_weather

\* WeatherService.get_forecast: without an api key the mock forecast, dated from
\* datetime.now() on
get_forecast(api_key, city, days, now, http_out) ==
  LET get_mock_forecast ==
        [k \in 1..days |->
           [date |-> AddDays(now, k - 1), temperature |-> 20 + (k - 1) * 2,
            humidity |-> 60 + (k - 1) * 5, description |-> "sunny", icon |-> "01d"]]
  IN IF Truthy(api_key) /\ http_out.kind = "json" THEN http_out.v ELSE get_mock_forecast

\* PriceService.get_destination_prices: the table of the first key that is part of the
\* destination or that the destination is part of, the default table otherwise
get_destination_prices(destination) ==
  LET Tiers(budget, mid, luxury) == [budget |-> budget, mid |-> mid, luxury |-> luxury]
      Table(currency, rate, a, f, t, c) ==
        [currency |-> currency, exchange_rate |-> rate,
         accommodation |-> a, food |-> f, transport |-> t, activities |-> c]
      keys == <<<<"d", "u", "b", "a", "i">>, <<"p", "a", "r", "i", "s">>,
                <<"t", "o", "k", "y", "o">>, <<"b", "a", "l", "i">>>>
      price_data ==
        <<Table("AED", "3.67", Tiers(200, 400, 800), Tiers(50, 100, 200),
                Tiers(20, 50, 100), Tiers(100, 200, 400)),
          Table("EUR", "0.85", Tiers(80, 150, 300), Tiers(30, 60, 120),
                Tiers(15, 30, 60), Tiers(50, 100, 200)),
          Table("JPY", "110.0", Tiers(8000, 15000, 30000), Tiers(2000, 4000, 8000),
                Tiers(1000, 2000, 4000), Tiers(3000, 6000, 12000)),
          Table("IDR", "15000.0", Tiers(500000, 1000000, 2000000),
                Tiers(100000, 200000, 400000), Tiers(50000, 100000, 200000),
                Tiers(200000, 400000, 800000))>>
      Found(hits) ==
        IF hits # {} THEN price_data[MinOf(hits)]
        ELSE Table("USD", "1.0", Tiers(50, 100, 200), Tiers(20, 40, 80),
                   Tiers(10, 20, 40), Tiers(30, 60, 120))
      Search(low) ==
        Found({i \in 1..Len(keys) : Contains(low, keys[i]) \/ Contains(keys[i], low)})
  IN Search(Lower(destination))

\* a call of one of the three services with no api key configured; `now` is the date
\* of datetime.now() at the call, and the call before it is remembered
ServiceCall(op, city, now) ==
  LET Result ==
        IF op = "get_current_weather" THEN get_current_weather(PyNone, city, LlmRaise)
        ELSE IF op = "get_forecast" THEN get_forecast(PyNone, city, 3, now, LlmRaise)
        ELSE get_destination_prices(city)
  IN /\ turns < MaxTurns
     /\ turns' = turns + 1
     /\ last' = [op |-> op, city |-> city, now |-> now, result |-> Result,
                 before |-> IF last.op = "none" THEN PyNone
                            ELSE [op |-> last.op, city |-> last.city, now |-> last.now,
                                  result |-> last.result]]
     /\ UNCHANGED <<variant, sessions, plans, stored_plans, synthesized, clock, trips,
                    conversations, users, current_user, threads>>

\* calls of the weather and price services
NextServices ==
  \E op \in {"get_current_weather", "get_forecast", "get_destination_prices"} :
  \E city \in Texts.city, now \in {Today, NextDay(Today)} : ServiceCall(op, city, now)

SpecServices == Init /\ [][NextServices]_vars

\* ---------------------------------------------------------------- accounts (auth.py)
\* a check that takes any password
CheckAnyPassword(pwhash, password) == TRUE

\* User.check_password, werkzeug check_password_hash: the digest of the password under
\* the salt of the hash
check_password_hash(pwhash, password) == pwhash.digest = <<pwhash.salt, password>>

\* User.query.filter_by(column=value).first(): the id of the first row, 0 without one
FirstUser(us, column, value) ==
  LET Of(ids) == IF ids = {} THEN 0 ELSE MinOf(ids)
  IN Of({id \in DOMAIN us : us[id][column] = value})

\* what a request of auth.py leaves to be seen: the status, and the username and
\* password pairs registered with success before it
AuthSeen(op, username, email, password, status) ==
  [op |-> op, username |-> username, email |-> email, password |-> password,
   status |-> status, users_before |-> users,
   registered |-> IF "registered" \notin DOMAIN last THEN {}
                  ELSE IF last.op = "register" /\ last.status = 200
                       THEN last.registered \cup {<<last.username, last.password>>}
                       ELSE last.registered]

\* POST /register; User.set_password stores generate_password_hash(password), a salted
\* digest and never the password itself
Register(username, email, password, salt) ==
  LET Created == [username |-> username, email |-> email,
                  password_hash |-> [salt |-> salt, digest |-> <<salt, password>>],
                  budget_level |-> Tx.mid_range, interests |-> <<>>]
      Refused == username = "" \/ email = "" \/ password = ""
                 \/ FirstUser(users, "username", username) # 0
                 \/ FirstUser(users, "email", email) # 0
  IN /\ turns < MaxRequests
     /\ turns' = turns + 1
     /\ users' = IF Refused THEN users ELSE Append(users, Created)
     /\ current_user' = IF Refused THEN current_user ELSE Len(users) + 1
     /\ last' = AuthSeen("register", username, email, password, IF Refused THEN 400 ELSE 200)
     /\ UNCHANGED <<variant, sessions, plans, stored_plans, synthesized, clock, trips,
                    conversations, threads>>

\* POST /login
Login(username, password) ==
  LET Found(id) == id # 0 /\ check_password_hash(users[id].password_hash, password)
      Status(id) == IF username = "" \/ password = "" THEN 400
                    ELSE IF Found(id) THEN 200 ELSE 401
      At(id) ==
        /\ current_user' = IF Status(id) = 200 THEN id ELSE current_user
        /\ last' = AuthSeen("login", username, "", password, Status(id))
  IN /\ turns < MaxRequests
     /\ turns' = turns + 1
     /\ At(FirstUser(users, "username", username))
     /\ UNCHANGED users
     /\ UNCHANGED <<variant, sessions, plans, stored_plans, synthesized, clock, trips,
                    conversations, threads>>

\* POST /logout, behind @login_required
Logout ==
  /\ turns < MaxRequests
  /\ turns' = turns + 1
  /\ current_user' = 0
  /\ last' = AuthSeen("logout", "", "", "", IF current_user = 0 THEN 401 ELSE 200)
  /\ UNCHANGED users
  /\ UNCHANGED <<variant, sessions, plans, stored_plans, synthesized, clock, trips,
                 conversations, threads>>

\* the application with an empty user table
InitAuth ==
  /\ variant = "enhanced"
  /\ sessions = <<>> /\ plans = <<>> /\ stored_plans = <<>> /\ synthesized = {}
  /\ clock = 0 /\ trips = <<>> /\ conversations = <<>>
  /\ users = <<>> /\ current_user = 0 /\ threads = <<>> /\ turns = 0
  /\ last = [op |-> "none", status |-> 0]

NextAuth ==
  \/ \E username \in Texts.username, email \in Texts.email, password \in Texts.password :
     \E salt \in {"x", "y"} : Register(username, email, password, salt)
  \/ \E username \in Texts.username, password \in Texts.password : Login(username, password)
  \/ Logout

SpecAuth == InitAuth /\ [][NextAuth]_vars

\* ---------------------------------------------------------------- concurrent chat turns
\* Two requests of POST /chat of app.py for the same session, each in its own thread of
\* the server.  A thread runs chat one statement at a time:
\*   append  context['messages'].append(...)
\*   clear   context.clear()                    update  context.update({...})
\*   resolve `if not context['destination']` and the resolver
\*   merge   one iteration of the merge loop; for interests it is three steps,
\*           extend (in place), dedup_read (list(set(context['interests']))) and
\*           dedup_write (context['interests'] = ...)
\*   flow    "Handle conversation flow" to the return
\* A key the context lacks raises KeyError, and the except clause of chat returns.

\* the write of dedup_write that is left out
DedupWriteSkipped(context, tmp) == context

\* context['interests'] = <the list built by list(set(...))>
DedupWrite(context, tmp) == Put(context, "interests", List(tmp))

\* one statement of thread t
ThreadStep(t) ==
  LET me == threads[t]
      context == sessions["s1"]
      Has(k) == k \in DOMAIN context
      Overlaps == \E o \in DOMAIN threads : o # t /\ threads[o].pc \notin {"append", "done"}
      Moved(next) == [next EXCEPT !.overlapped = me.overlapped \/ Overlaps]
      \* the thread goes on with the context changed
      Go(pc, ctx, rest, tmp) ==
        /\ threads' = [threads EXCEPT ![t] = Moved([me EXCEPT !.pc = pc, !.rest = rest, !.tmp = tmp])]
        /\ sessions' = [sessions EXCEPT !["s1"] = ctx]
        /\ UNCHANGED <<plans, stored_plans>>
      \* KeyError (or the TypeError of extend): chat returns from its except clause
      Raise == Go("done", context, <<>>, <<>>) 
      Merge(key, value) ==
        IF key = "interests" /\ Truthy(value)
        THEN IF ~Has("interests") \/ ExtendRaises(value) THEN Raise
             ELSE Go("dedup_read",
                     Put(context, "interests", List(context["interests"].e \o ExtendItems(value))),
                     me.rest, <<>>)
        ELSE Go("merge", MergeOne("app", context, key, value).context, Tail(me.rest), <<>>)
      Flow(out) ==
        /\ threads' = [threads EXCEPT ![t] = Moved([me EXCEPT !.pc = "done"])]
        /\ sessions' = out.sessions
        /\ plans' = out.plans
        /\ stored_plans' = out.stored_plans
  IN /\ me.pc # "done"
     /\ CASE me.pc = "append" ->
               IF ~Has("messages") THEN Raise
               ELSE Go(IF IsReset(me.text) THEN "clear" ELSE "resolve",
                       AppendMessage(context, me.text), <<>>, <<>>)
          [] me.pc = "clear" -> Go("update", <<>>, <<>>, <<>>)
          [] me.pc = "update" -> Go("done", ResetLiteral @@ context, <<>>, <<>>)
          [] me.pc = "resolve" ->
               IF ~Has("destination") THEN Raise
               ELSE Go("merge", ChatResolve("app", context, LlmRaise, LlmRaise),
                       extract_travel_details("app", me.text, me.details_out), <<>>)
          [] me.pc = "merge" ->
               IF me.rest = <<>> THEN Go("flow", context, <<>>, <<>>)
               ELSE Merge(me.rest[1][1], me.rest[1][2])
          [] me.pc = "dedup_read" ->
               IF ~Has("interests") THEN Raise
               ELSE Go("dedup_write", context, me.rest, Dedup(context["interests"].e))
          [] me.pc = "dedup_write" ->
               Go("merge", DedupWrite(context, me.tmp), Tail(me.rest), <<>>)
          [] me.pc = "flow" ->
               IF ~Has("destination") THEN Raise
               ELSE Flow(ChatFlow("app", sessions, plans, stored_plans, clock, "s1",
                                  [context |-> context, raised |-> FALSE], LlmRaise))
     /\ UNCHANGED <<variant, synthesized, clock, trips, conversations, users, current_user,
                    turns, last>>

\* the session after a first turn that named Paris
RaceStart ==
  ChatBody("app", <<>>, <<>>, <<>>, 0, "s1", Tx.trip, LlmText(Tx.paris), LlmJson(<<>>),
           LlmRaise, LlmRaise)

\* two requests for that session arrive; each has its text and its extraction result
InitRace ==
  /\ variant = "app"
  /\ sessions = RaceStart.sessions
  /\ plans = <<>> /\ stored_plans = <<>> /\ synthesized = {}
  /\ clock = 0 /\ trips = <<>> /\ conversations = <<>>
  /\ users = <<>> /\ current_user = 0 /\ turns = 0
  /\ threads \in [{1, 2} -> [pc : {"append"}, text : {Tx.add_food, Tx.start_over},
                             details_out : Outs.race, rest : {<<>>}, tmp : {<<>>},
                             overlapped : {FALSE}]]
  /\ last = [op |-> "none"]

NextRace == \E t \in DOMAIN threads : ThreadStep(t)

SpecRace == InitRace /\ [][NextRace]_vars

\* ---------------------------------------------------------------- a database kept
\* The server starts on a database that holds a trip user 1 saved before the restart;
\* the sessions, the plans and the Plan Store are in memory and start empty.
InitSaved ==
  /\ variant \in Variants
  /\ sessions = <<>> /\ plans = <<>> /\ stored_plans = <<>> /\ synthesized = {}
  /\ clock = 0
  /\ trips = <<[user_id |-> 1,
                itinerary_data |-> [destination |-> Text(Tx.rome),
                                    plan_id |-> PlanId("s1", 0)]]>>
  /\ conversations = <<>>
  /\ users = (1 :> [budget_level |-> Tx.mid_range, interests |-> <<>>])
             @@ (2 :> [budget_level |-> Tx.luxury, interests |-> <<Tx.food, Tx.museums>>])
  /\ current_user = 0 /\ threads = <<>> /\ turns = 0
  /\ last = [op |-> "none", handler |-> "none", sid |-> "s1", reset |-> FALSE,
             resp |-> NoResponse, inner |-> NoResponse, raised |-> FALSE,
             synth_calls |-> 0, synth_path |-> "none", extract |-> "none",
             pre_state |-> PyNone, pre_plan |-> PyNone,
             plan_id |-> PyNone, status |-> 0, body |-> PyNone, interests |-> PyNone,
             request |-> PyNone]

SpecSaved == InitSaved /\ [][Next]_vars

\* ---------------------------------------------------------------- trips (auth.py)
\* The trips table maps the id of a row to the row; a deleted row leaves the table.
\* The requests are served with the database working.

\* a query that looks the row up by its id alone
TripQueryAnyUser(tr, trip_id, user_id) == IF trip_id \in DOMAIN tr THEN trip_id ELSE 0

\* Trip.query.filter_by(id=trip_id, user_id=current_user.id).first(): the id of the
\* row, 0 for None
TripQuery(tr, trip_id, user_id) ==
  IF trip_id \in DOMAIN tr /\ tr[trip_id].user_id = user_id THEN trip_id ELSE 0

\* GET /trips/<trip_id>, behind @login_required
get_trip(trip_id) ==
  LET Found(id) ==
        IF current_user = 0 THEN [status |-> 401, body |-> Atom("unauthorized")]
        ELSE IF id = 0 THEN [status |-> 404, body |-> Atom("Trip not found")]
        ELSE [status |-> 200, body |-> [id |-> id, itinerary |-> trips[id].itinerary_data]]
      Seen(r) ==
        [op |-> "get_trip", trip_id |-> trip_id, user |-> current_user, status |-> r.status,
         body |-> r.body, trips_before |-> trips]
  IN /\ turns < MaxRequests
     /\ turns' = turns + 1
     /\ last' = Seen(Found(TripQuery(trips, trip_id, current_user)))
     /\ UNCHANGED <<variant, sessions, plans, stored_plans, synthesized, clock, trips,
                    conversations, users, current_user, threads>>

\* DELETE /trips/<trip_id>, behind @login_required
delete_trip(trip_id) ==
  LET Found(id) ==
        IF current_user = 0 THEN [status |-> 401, body |-> Atom("unauthorized")]
        ELSE IF id = 0 THEN [status |-> 404, body |-> Atom("Trip not found")]
        ELSE [status |-> 200, body |-> Atom("Trip deleted successfully")]
      Seen(r) ==
        [op |-> "delete_trip", trip_id |-> trip_id, user |-> current_user,
         status |-> r.status, body |-> r.body, trips_before |-> trips]
      Run(id) ==
        /\ trips' = IF current_user = 0 \/ id = 0 THEN trips
                    ELSE [k \in DOMAIN trips \ {id} |-> trips[k]]
        /\ last' = Seen(Found(id))
  IN /\ turns < MaxRequests
     /\ turns' = turns + 1
     /\ Run(TripQuery(trips, trip_id, current_user))
     /\ UNCHANGED <<variant, sessions, plans, stored_plans, synthesized, clock,
                    conversations, users, current_user, threads>>

\* the application on a database with two users and the trips they saved
InitTrips ==
  LET Account(username, email, password) ==
        [username |-> username, email |-> email,
         password_hash |-> [salt |-> "x", digest |-> <<"x", password>>],
         budget_level |-> Tx.mid_range, interests |-> <<>>]
      Saved(user_id, city) ==
        [user_id |-> user_id, itinerary_data |-> [destination |-> Text(city)]]
  IN /\ variant = "enhanced"
     /\ sessions = <<>> /\ plans = <<>> /\ stored_plans = <<>> /\ synthesized = {}
     /\ clock = 0 /\ conversations = <<>> /\ threads = <<>> /\ turns = 0
     /\ users = <<Account("ann", "ann@x.org", "pw1"), Account("bob", "bob@x.org", "pw2")>>
     /\ trips = <<Saved(1, Tx.paris), Saved(2, Tx.rome), Saved(1, Tx.rome)>>
     /\ current_user = 0
     /\ last = [op |-> "none", status |-> 0]

NextTrips ==
  \/ \E username \in Texts.username, password \in Texts.password : Login(username, password)
  \/ Logout
  \/ \E trip_id \in 1..MaxTripId : get_trip(trip_id)
  \/ \E trip_id \in 1..MaxTripId : delete_trip(trip_id)

SpecTrips == InitTrips /\ [][NextTrips]_vars

\* ---------------------------------------------------------------- properties
\* the context of the session of the last turn
Ctx == sessions[last.sid]

\* the last step was a non-reset call of chat
ChatTurn == last.handler = "chat" /\ ~last.reset

\* the plan object the last response carries
ReturnedPlan == plans[last.resp.ref]

\* the slots a variant requires before it synthesizes, in the order it asks about them
RequiredSlots(v) ==
  IF v = "app" THEN <<"duration", "budget_level", "interests">>
  ELSE <<"duration", "budget_level", "group_size", "travel_dates", "interests">>

MissingSlots(v, context) == SelectSeq(RequiredSlots(v), LAMBDA k : ~Truthy(Get(context, k)))

\* the name a follow-up question gives to a slot
SlotName(k) == IF k = "budget_level" THEN "budget" ELSE k

\* C1: right after a chat turn whose text holds a reset phrase, every field of the
\* session context reads as in a fresh context (unset slots and plan, empty interests
\* and messages, conversation_state 'planning') and no other field remains.
C1_ResetRestoresFresh ==
  (last.handler = "chat" /\ last.reset) =>
    \A k \in DOMAIN Ctx \cup DOMAIN FreshContext(variant) :
      Get(Ctx, k) = Get(FreshContext(variant), k)

\* a reset turn on a session that held a plan
C1_Witness == last.handler = "chat" /\ last.reset /\ Truthy(last.pre_plan)

\* C2: a non-reset chat turn returns a plan only with destination, duration, budget
\* level and interests (and group size and travel dates in enhanced_planner.py) in
\* the context, and then the synthesizer ran exactly once and the plan is current_plan
\* in state plan_created; on every other non-reset turn the synthesizer did not run
\* and current_plan is what it was.
C2_SynthesisOnlyWhenComplete ==
  ChatTurn =>
    /\ last.resp.kind = "plan" =>
         /\ Truthy(Get(Ctx, "destination"))
         /\ MissingSlots(variant, Ctx) = <<>>
         /\ last.synth_calls = 1
         /\ Ctx["current_plan"] = Ref(last.resp.ref)
         /\ Ctx["conversation_state"] = Atom("plan_created")
    /\ last.resp.kind # "plan" =>
         /\ last.synth_calls = 0
         /\ Ctx["current_plan"] = last.pre_plan

\* C3: a non-reset chat turn that answers with destination known and a required slot
\* missing asks about exactly one slot, the first missing one in the order duration,
\* budget, group size, travel dates, interests.
C3_OneQuestionByPriority ==
  (ChatTurn /\ last.resp.success /\ Truthy(Get(Ctx, "destination"))
     /\ MissingSlots(variant, Ctx) # <<>>) =>
    /\ last.resp.kind = "question"
    /\ last.resp.slots = <<SlotName(MissingSlots(variant, Ctx)[1])>>

\* C4: a non-reset turn on a session in state plan_created is handled by the Follow-Up
\* Modifier, and the Follow-Up Modifier handles a turn only when the session holds a plan.
C4_PlanCreatedRoutesToModifier ==
  /\ (last.handler \in {"chat", "followup"} /\ ~last.reset
        /\ last.pre_state = Atom("plan_created")) => last.handler = "followup"
  /\ (last.op = "enhanced_chat" /\ last.handler = "followup") => Truthy(last.pre_plan)

\* min(requestedDays, 10) for the context of the last turn
ClampedDays ==
  IF FallbackDays(variant, Ctx["duration"], Ctx["travel_dates"]) < DetailLimit
  THEN FallbackDays(variant, Ctx["duration"], Ctx["travel_dates"]) ELSE DetailLimit

\* C5: a plan of the template fallback path has exactly N = min(requestedDays, 10)
\* day entries, N >= 1, numbered 1..N in order.
C5_FallbackDayCount ==
  (ChatTurn /\ last.resp.kind = "plan" /\ last.synth_path = "fallback") =>
    /\ ClampedDays >= 1
    /\ Len(ReturnedPlan["itinerary"].days) = ClampedDays
    /\ \A i \in 1..Len(ReturnedPlan["itinerary"].days) :
         ReturnedPlan["itinerary"].days[i].day_number = i

\* every slot of the context is filled
AllSlots(context) ==
  \A k \in {"destination", "duration", "budget_level", "group_size", "travel_dates",
            "interests"} : Truthy(Get(context, k))

\* the keys of a well-formed plan
PlanKeys == {"destination", "duration", "budget_range", "itinerary"}

\* C6: with every slot filled, a call of create_currency_aware_itinerary does not raise
\* and returns a plan, never the error record; the plan of the template path holds
\* destination, duration, budget_range and an itinerary.
C6_SynthesizerNeverFails ==
  (last.handler = "chat" /\ last.synth_calls = 1 /\ AllSlots(Ctx)) =>
    /\ last.synth_path \in {"llm", "fallback"}
    /\ last.inner.kind = "plan"
    /\ last.synth_path = "fallback" => PlanKeys \subseteq DOMAIN plans[last.inner.ref]

\* C7: a chat turn whose extraction failed (the provider raised, or its output had no
\* object, did not parse, or had an unexpected shape) returns success with a greeting,
\* a follow-up question or a plan.
C7_ExtractionFailureRecovered ==
  (last.handler = "chat" /\ last.extract \in {"failed", "shape"}) =>
    /\ last.inner.success
    /\ last.inner.kind \in {"greeting", "question", "plan"}

\* a response record as the handlers promise it: a success carries a response; a
\* failure carries a readable message, under "error" or, for the refusal of
\* handle_follow_up_request on a session without a plan, under "response"
WellFormed(r) ==
  /\ ~r.propagated
  /\ r.success => r.kind \in {"reset", "greeting", "question", "plan"}
  /\ ~r.success => (r.error \/ r.kind = "noplan")

\* C8: every call of chat, enhanced_chat, handle_follow_up_request and the /chat route
\* returns a response record, a success with a response or a failure with a message;
\* no exception leaves the handler.
C8_HandlersAlwaysRespond ==
  last.op \in {"chat_route", "enhanced_chat", "handle_follow_up_request"} =>
    /\ WellFormed(last.resp)
    /\ last.handler = "chat" => WellFormed(last.inner)

\* a turn in which chat caught an exception
C8_Witness == last.handler = "chat" /\ last.raised /\ ~last.resp.success /\ last.resp.error

\* no two plans created by chat hold the same plan_id
UniquePlanIds ==
  \A i \in synthesized : \A j \in synthesized :
    i # j => plans[i]["plan_id"] # plans[j]["plan_id"]

\* a step leaves the plan_id of every plan as it is
PlanIdKept ==
  \A i \in DOMAIN plans :
    "plan_id" \in DOMAIN plans[i] =>
      /\ i \in DOMAIN plans'
      /\ "plan_id" \in DOMAIN plans'[i]
      /\ plans'[i]["plan_id"] = plans[i]["plan_id"]

\* C9: two distinct plans created by chat turns never share a plan_id, and the
\* plan_id of a plan never changes.
C9_PlanIdsDistinctAndFixed == [](UniquePlanIds) /\ [][PlanIdKept]_vars

ModifierKeepsIdentity ==
  (last'.handler = "followup" /\ last'.resp.kind = "plan" /\ turns' # turns) =>
    \A k \in {"plan_id", "destination", "budget_range"} :
      Get(plans'[last'.resp.ref], k)
        = Get(plans[sessions[last'.sid]["current_plan"].r], k)

\* C11: for every current plan and change descriptor (the budget target included), and
\* whether the provider returns an object, unparseable output or raises, the plan the
\* Follow-Up Modifier returns has the plan_id, destination and budget_range of the
\* current plan.
C11_ModifierKeepsIdentity == [][ModifierKeepsIdentity]_vars

\* the modifier returned the provider's object, a new plan
C11_Witness ==
  /\ last.handler = "followup" /\ last.resp.kind = "plan"
  /\ last.resp.ref # last.pre_plan.r

\* a turn of the Follow-Up Modifier that returns the session's own plan object (the
\* provider gave no structured update) leaves every field the plan had, adds a
\* modification_note, and keeps the plan as current_plan
UnfulfilledRequestNoted ==
  (/\ last'.handler = "followup" /\ last'.resp.kind = "plan" /\ turns' # turns
   /\ last'.resp.ref = sessions[last'.sid]["current_plan"].r) =>
    /\ \A k \in DOMAIN plans[last'.resp.ref] \ {"modification_note"} :
         /\ k \in DOMAIN plans'[last'.resp.ref]
         /\ plans'[last'.resp.ref][k] = plans[last'.resp.ref][k]
    /\ "modification_note" \in DOMAIN plans'[last'.resp.ref]
    /\ sessions'[last'.sid]["current_plan"] = Ref(last'.resp.ref)

\* C12: when the provider gives no structured update for a follow-up (it raises, its
\* response has no object, or the object does not parse), modify_plan_based_on_request
\* returns the original plan with its fields unchanged and a modification_note, and the
\* session keeps that plan as current_plan.
C12_FailedModificationIsNoted == [][UnfulfilledRequestNoted]_vars

\* the outcome of the last download request: 404 and no document for an id that is
\* absent or not stored; for a stored id the document that reads back as the stored plan
DownloadOutcome ==
  last.op = "download" =>
    IF last.plan_id = PyNone \/ last.plan_id \notin DOMAIN stored_plans
    THEN last.status = 404 /\ last.body = PyNone
    ELSE /\ last.status = 200
         /\ last.body.t = "json"
         /\ Loads(last.body) = plans[stored_plans[last.plan_id]]

\* a download request leaves the Plan Store and the stored plans as they are
DownloadKeepsStore ==
  last'.op = "download" => (stored_plans' = stored_plans /\ plans' = plans)

Range(q) == {q[i] : i \in DOMAIN q}

\* the interest strings an extraction result names: the members of a list, or the
\* string itself
InterestStrings(value) ==
  IF value.t = "list" THEN Range(value.e)
  ELSE IF value.t = "text" THEN {value.s}
  ELSE {}

\* a non-reset chat turn leaves as interests the interests the session had together
\* with the interest strings the turn extracted, each once
InterestsAreUnion ==
  (last'.handler = "chat" /\ ~last'.reset /\ turns' # turns) =>
    /\ Range(sessions'[last'.sid]["interests"].e)
         = (IF last'.sid \in DOMAIN sessions
            THEN Range(sessions[last'.sid]["interests"].e) ELSE {})
           \cup InterestStrings(last'.interests)
    /\ Cardinality(Range(sessions'[last'.sid]["interests"].e))
         = Len(sessions'[last'.sid]["interests"].e)

\* C14: interests accumulate as a deduplicated union: every non-reset turn leaves
\* exactly the interests held before together with the interest strings it extracted,
\* each once, so a turn that extracts an interest already present changes nothing.
C14_InterestsDeduplicatedUnion == [][InterestsAreUnion]_vars

\* a non-reset chat turn leaves the field k of the session as it was once it has a value
KeepsField(k) ==
  (/\ last'.handler = "chat" /\ ~last'.reset /\ turns' # turns
   /\ last'.sid \in DOMAIN sessions
   /\ Truthy(Get(sessions[last'.sid], k))) =>
    Get(sessions'[last'.sid], k) = Get(sessions[last'.sid], k)

\* C15: within a planning round duration and budget_level are assigned at most once:
\* once either has a value no later non-reset turn changes it, whatever the extraction
\* (the provider's object or the keyword fallback) returns.
C15_DurationBudgetSetOnce == [][KeepsField("duration") /\ KeepsField("budget_level")]_vars

\* C16: once the session's destination has a value, a chat turn that is not a reset
\* leaves it as it is, whatever keys the extraction result holds.
C16_DestinationWriteOnce == [][KeepsField("destination")]_vars

\* the travel_dates record a session holds agrees with its own dates
DatesConsistent(td) ==
  /\ td.duration_days = Ordinal(td.end_date) - Ordinal(td.start_date) + 1
  /\ td.duration_days >= 1

\* C17: every travel_dates record a session holds has
\* duration_days = end_date - start_date + 1, and that is at least 1.
C17_StoredDatesConsistent ==
  \A sid \in DOMAIN sessions :
    Truthy(Get(sessions[sid], "travel_dates")) =>
      DatesConsistent(Get(sessions[sid], "travel_dates").d)

\* the trip length a duration phrase of a text stands for: N for "N days", 7 * N for
\* "N weeks" (the leftmost phrase of the text)
PhraseDays(low) ==
  LET Of(dd, dw) ==
        IF IsNone(dw) \/ (~IsNone(dd) /\ Val(dd)[1] < Val(dw)[1])
        THEN DigitsToInt(Val(dd)[2]) ELSE 7 * DigitsToInt(Val(dw)[2])
  IN Of(NumThenWord(low, Word.day), NumThenWord(low, Word.week))

\* a turn of enhanced_planner.py in which the keyword fallback extracted the duration
\* leaves a duration whose first integer is the trip length its phrase stands for
DurationIsPhraseDays ==
  (/\ variant = "enhanced" /\ last'.handler = "chat" /\ ~last'.reset
   /\ last'.extract = "failed" /\ turns' # turns
   /\ last'.sid \in DOMAIN sessions') =>
    LET Checked(context, low) ==
          (/\ FallbackDuration(low) # <<>>
           /\ Get(context, "duration") = FallbackDuration(low)[1][2]) =>
            FallbackDays(variant, Get(context, "duration"), PyNone) = PhraseDays(low)
        Said(context, entry) ==
          Checked(context, Lower(SubSeq(entry, Len(Tx.user_prefix) + 1, Len(entry))))
        Turn(context) == Said(context, context["messages"].q[Len(context["messages"].q)])
    IN Turn(sessions'[last'.sid])

\* C18: a text with a duration phrase gives, through the extracted duration and the
\* synthesizer's first-integer rule, N days for "N days" and 7 * N days for "N weeks".
C18_DurationPhraseGivesDays == [][DurationIsPhraseDays]_vars

\* the message log of a session; empty before the session exists
MessagesOf(ss, sid) == IF sid \in DOMAIN ss THEN ss[sid]["messages"].q ELSE <<>>

\* a chat turn puts one entry at the end of the log and keeps the entries before it
OneEntryAppended ==
  (last'.handler = "chat" /\ turns' # turns) =>
    LET Grown(old, new) == Len(new) = Len(old) + 1 /\ SubSeq(new, 1, Len(old)) = old
    IN Grown(MessagesOf(sessions, last'.sid), MessagesOf(sessions', last'.sid))

\* C19: the message log only grows: every chat turn appends one entry for the user
\* text at the end of messages, and the earlier entries stay as they were, in order.
C19_MessagesAppendOnly == [][OneEntryAppended]_vars

\* an itinerary without the entry of day k, the entries left numbered from 1 in order
RemoveDay(days, k) ==
  LET Numbered(kept) == [i \in 1..Len(kept) |-> [kept[i] EXCEPT !.day_number = i]]
  IN Numbered(SelectSeq(days, LAMBDA entry : entry.day_number # k))

\* a follow-up turn that asks to remove day k of a plan which has one returns the plan
\* without that day, the other days numbered from 1
DayRemoved ==
  (/\ last'.handler = "followup" /\ turns' # turns /\ last'.resp.kind = "plan"
   /\ last'.request.change_type = "remove" /\ last'.request.change_target = "day"
   /\ ~IsNone(FirstDigits(last'.request.details.s))
   /\ Get(plans[last'.pre_plan.r], "itinerary").t = "days") =>
    LET Asked(days, k) ==
          (\E i \in 1..Len(days) : days[i].day_number = k) =>
            Get(plans'[last'.resp.ref], "itinerary") = Days(RemoveDay(days, k))
    IN Asked(Get(plans[last'.pre_plan.r], "itinerary").days,
             DigitsToInt(Val(FirstDigits(last'.request.details.s))))

\* C20: removing a day through the Follow-Up Modifier deletes the entry of that day
\* and numbers the remaining days from 1 in their order.
C20_DayRemovalRenumbers == [][DayRemoved]_vars

\* the context of a session with the plan it refers to
Deep(ss, pl, sid) ==
  [context |-> ss[sid],
   plan |-> IF Truthy(ss[sid]["current_plan"]) THEN pl[ss[sid]["current_plan"].r] ELSE PyNone]

\* a turn on one session leaves the context of every other session, and the plan that
\* context holds, as they were
OtherSessionsKept ==
  (turns' # turns) =>
    \A other \in DOMAIN sessions :
      other # last'.sid =>
        /\ other \in DOMAIN sessions'
        /\ Deep(sessions', plans', other) = Deep(sessions, plans, other)

\* C21: a chat turn, a reset or a follow-up on one session leaves every field of the
\* context of every other session unchanged.
C21_SessionsIsolated == [][OtherSessionsKept]_vars

\* a turn that changed one session while another one held a destination
C21_Witness ==
  /\ DOMAIN sessions = Sessions
  /\ last.handler \in {"chat", "followup"}
  /\ \E other \in Sessions \ {last.sid} : Truthy(sessions[other]["destination"])
  /\ Truthy(sessions[last.sid]["destination"])

\* a price table with a currency, an exchange rate and the three tiers of each category
CompleteTable(t) ==
  /\ DOMAIN t = {"currency", "exchange_rate", "accommodation", "food", "transport", "activities"}
  /\ \A c \in {"accommodation", "food", "transport", "activities"} :
       DOMAIN t[c] = {"budget", "mid", "luxury"}

\* C22: with no api key, two calls of get_current_weather, or two of get_forecast,
\* return the same record whatever the destination names and the times of the calls,
\* and get_destination_prices returns a complete tiered table for every name.
C22_MockDataInsensitive ==
  /\ (last.op \in {"get_current_weather", "get_forecast"} /\ last.before # PyNone
      /\ last.before.op = last.op) => last.result = last.before.result
  /\ last.op = "get_destination_prices" => CompleteTable(last.result)

\* a login succeeds exactly when its username was registered with its password before
LoginIffRegistered ==
  last.op = "login" =>
    (last.status = 200 <=> <<last.username, last.password>> \in last.registered)

\* no two stored users share a username or an email
UsersUnique ==
  \A a, b \in DOMAIN users :
    (users[a].username = users[b].username \/ users[a].email = users[b].email) => a = b

\* a registration with a username or an email that a stored user has is refused and
\* leaves the user table as it was
ReuseRejected ==
  (/\ last.op = "register"
   /\ \E id \in DOMAIN last.users_before :
        \/ last.users_before[id].username = last.username
        \/ last.users_before[id].email = last.email) =>
    (last.status # 200 /\ users = last.users_before)

\* C23: over register, login and logout requests, a login succeeds exactly when a user
\* with that username was registered with success with that password; a registration
\* that reuses a username or an email is rejected and adds no user; usernames and
\* emails of stored users stay unique.
C23_LoginIffRegistered == LoginIffRegistered /\ UsersUnique /\ ReuseRejected

\* a login of a registered user that succeeded
C23_Witness ==
  last.op = "login" /\ last.status = 200 /\ current_user # 0 /\ Len(users) = 1

\* the place of a stage in the order initial, planning, plan_created
StageRank(stage) ==
  IF stage = Atom("initial") THEN 0 ELSE IF stage = Atom("planning") THEN 1
  ELSE IF stage = Atom("plan_created") THEN 2 ELSE 3

\* the stage of a context agrees with what the session holds: initial without a
\* destination, planning with a destination and no plan, plan_created with a plan
StageFollowsSlots ==
  \A sid \in DOMAIN sessions :
    StageRank(sessions[sid]["stage"]) =
      (IF Truthy(sessions[sid]["current_plan"]) THEN 2
       ELSE IF Truthy(sessions[sid]["destination"]) THEN 1 ELSE 0)

\* a turn that is not a reset never moves the stage of its session backward
StageNotBackward ==
  (turns' # turns /\ ~last'.reset /\ last'.sid \in DOMAIN sessions) =>
    StageRank(sessions'[last'.sid]["stage"]) >= StageRank(sessions[last'.sid]["stage"])

\* C24: the stage of a session is initial when fresh or just reset, planning once a
\* destination is set, plan_created once a plan is synthesized, and only a reset
\* moves it backward.
C24_StageProgression == [](StageFollowsSlots) /\ [][StageNotBackward]_vars

\* the context of the session after the turns of threads a and b, one after the other
Serial(a, b) ==
  LET Turn(ss, pl, store, t) ==
        ChatBody("app", ss, pl, store, 0, "s1", threads[t].text, LlmRaise, LlmRaise,
                 threads[t].details_out, LlmRaise)
      Second(first) == Turn(first.sessions, first.plans, first.stored_plans, b)
  IN Second(Turn(RaceStart.sessions, <<>>, <<>>, a)).sessions["s1"]

BothDone == \A t \in DOMAIN threads : threads[t].pc = "done"

\* two turns of which one ended before the other began leave the context of a serial
\* order
SerialWhenApart ==
  (BothDone /\ \A t \in DOMAIN threads : ~threads[t].overlapped) =>
    sessions["s1"] \in {Serial(1, 2), Serial(2, 1)}

\* C25: two chat turns for one session that are interleaved statement by statement
\* race: there is an interleaving whose final context is that of neither serial
\* order, with interests one turn merged missing at the end.
C25_TurnsRace == SerialWhenApart

\* both turns are done without an error, the final context is that of neither serial
\* order, and an interest that both serial orders keep is missing
C25_Witness ==
  /\ BothDone
  /\ sessions["s1"] \notin {Serial(1, 2), Serial(2, 1)}
  /\ DOMAIN sessions["s1"] = DOMAIN ResetLiteral
  /\ \E item \in Range(Serial(1, 2)["interests"].e) \cap Range(Serial(2, 1)["interests"].e) :
       item \notin Range(sessions["s1"]["interests"].e)

\* thread t is about to run a statement that reads the context
Observes(t) == threads[t].pc \in {"append", "resolve", "merge", "dedup_read", "flow"}

\* C26: a reset clears all fields of the context atomically: no other turn can
\* observe a context with some of its fields missing.
C26_ResetAtomic ==
  \A t \in DOMAIN threads : Observes(t) => DOMAIN ResetLiteral \subseteq DOMAIN sessions["s1"]

\* the change type the keywords of a text give: add before remove before replace,
\* modify without a keyword
KeywordType(text) ==
  LET Has(words) == \E w \in words : Contains(Lower(text), w)
  IN IF Has({<<"a", "d", "d">>, <<"i", "n", "c", "l", "u", "d", "e">>, <<"m", "o", "r", "e">>}) THEN "add"
     ELSE IF Has({<<"r", "e", "m", "o", "v", "e">>, <<"d", "e", "l", "e", "t", "e">>, <<"l", "e", "s", "s">>}) THEN "remove"
     ELSE IF Has({<<"c", "h", "a", "n", "g", "e">>,
             <<"d", "i", "f", "f", "e", "r", "e", "n", "t">>, <<"i", "n", "s", "t", "e", "a", "d">>}) THEN "replace"
     ELSE "modify"

\* C27: when the provider gives no parseable descriptor (the call raises, or its
\* content holds no parseable object), analyze_follow_up_request classifies the
\* request by keyword (add, then remove, then replace, else modify), with target
\* 'general' and the raw user text as details.
C27_KeywordFallback ==
  (last.request # PyNone /\ last.request.change_target = "general") =>
    last.request.change_type = KeywordType(last.request.details.s)

\* the plan the Plan Store holds under the plan_id of the session's current plan is
\* that plan
StoreHoldsCurrent(sid) ==
  LET Holds(plan) ==
        "plan_id" \in DOMAIN plan =>
          /\ plan["plan_id"] \in DOMAIN stored_plans
          /\ plans[stored_plans[plan["plan_id"]]] = plan
  IN sessions[sid]["current_plan"].t = "ref" => Holds(plans[sessions[sid]["current_plan"].r])

\* C28: after any sequence of plan creations and follow-up modifications, the Plan
\* Store entry under the plan_id of a session's current plan equals that current plan,
\* so a download after a modification returns the modified plan.
C28_StoreFollowsCurrentPlan == \A sid \in DOMAIN sessions : StoreHoldsCurrent(sid)

\* a trip row whose itinerary_data a step rewrote is the row saved for the plan the
\* follow-up modified, and belongs to the user who asked
OnlyOwnTripRewritten ==
  \A k \in DOMAIN trips :
    trips'[k].itinerary_data # trips[k].itinerary_data =>
      /\ last'.handler = "followup"
      /\ trips[k].user_id = Owner(last'.sid)
      /\ Get(trips[k].itinerary_data, "plan_id") = Get(trips'[k].itinerary_data, "plan_id")

\* C29: handle_follow_up_request writes the modified plan only into the trip record
\* saved for that same plan by the requesting user; the itinerary_data of every other
\* trip is unchanged, whatever the plan_id string.
C29_OnlyOwnTripRewritten == [][OnlyOwnTripRewritten]_vars

\* the request just served was a trip request of a logged-in user
TripRequest == last.op \in {"get_trip", "delete_trip"} /\ last.user # 0

\* the row the request named is the logged-in user's own
OwnRow ==
  /\ last.trip_id \in DOMAIN last.trips_before
  /\ last.trips_before[last.trip_id].user_id = last.user

\* a request for a trip that is not the user's own, or that is no longer stored, is
\* answered not-found with none of the trip's data, and the table stays as it was
ForeignTripHidden ==
  (TripRequest /\ ~OwnRow) =>
    /\ last.status = 404
    /\ last.body = Atom("Trip not found")
    /\ trips = last.trips_before

\* a request for the user's own trip succeeds; a delete removes that row and no other
OwnTripServed ==
  (TripRequest /\ OwnRow) =>
    /\ last.status = 200
    /\ last.op = "get_trip" =>
         (last.body.itinerary = last.trips_before[last.trip_id].itinerary_data
          /\ trips = last.trips_before)
    /\ last.op = "delete_trip" =>
         (/\ DOMAIN trips = DOMAIN last.trips_before \ {last.trip_id}
          /\ \A k \in DOMAIN trips : trips[k] = last.trips_before[k])

DeletedTripNotFound ==
  /\ TripRequest /\ last.user = 1 /\ last.trip_id = 3 /\ last.status = 404
  /\ 3 \notin DOMAIN trips

====
